---- MODULE Spec2Model ----
(***************************************************************************)
(* Model of the dependency resolver: the batch resolver                    *)
(* (dependency_resolver/core/resolver.py), the orchestrator                *)
(* (dependency_resolver/core/orchestrator.py) and the pip detector         *)
(* (dependency_resolver/detectors/pip_detector.py).                        *)
(*                                                                         *)
(* SpecBatch  : DependencyResolver.resolve_batch with its worker pool.     *)
(* SpecOrch   : one Orchestrator.resolve_dependencies run.                 *)
(***************************************************************************)
EXTENDS Integers, Sequences, FiniteSets, TLC

\* ------------------------------------------------------------------------
\* Bounds
\* ------------------------------------------------------------------------
MaxRequests == 3      \* longest request list handed to resolve_batch
MaxWorkers == 2       \* largest max_workers of the thread pool
MaxActive == 2        \* most package detectors that respond on one target

\* ------------------------------------------------------------------------
\* Values shared by both parts
\* ------------------------------------------------------------------------
NoneStr == "None"

\* the exception classes named by the except clauses
\* (resolver.py:226, orchestrator.py:106)
CaughtExceptions == {"RuntimeError", "OSError", "ValueError"}

Range(s) == {s[k] : k \in 1..Len(s)}

VARIABLES
    \* ---- batch resolver -------------------------------------------------
    requests,         \* the list handed to resolve_batch
    fail_fast,        \* resolve_batch argument
    progress_callback,   \* resolve_batch argument: whether a callback was handed in
    progress_calls,   \* the invocations of the callback, in order
    max_workers,      \* DependencyResolver.max_workers
    docker_client,    \* what docker.from_env() / the daemon answers
    bpc,              \* position of resolve_batch
    fstate,           \* state of each future: pending/running/finished/cancelled
    foutcome,         \* what each finished future holds
    yielded,          \* futures as_completed has already handed out
    results,          \* the results slice of resolve_batch
    completed_count,  \* resolve_batch local
    cancel_i,         \* cursor of the fail_fast cancel loop
    returned,         \* the list resolve_batch returned
    raised,           \* the exception resolve_batch propagates, or "None"
    \* ---- orchestrator ---------------------------------------------------
    opc,              \* position of Orchestrator.resolve_dependencies
    executor_type,    \* class of the executor handed to resolve_dependencies
    working_dir,      \* resolve_dependencies argument
    skip_system_scope,   \* Orchestrator.skip_system_scope
    only_container_info, \* resolve_dependencies argument
    detectors_to_run, \* resolve_dependencies local
    di,               \* index of the detector the loop is at
    calls,            \* detector operations invoked so far, in order
    usable_of,        \* what is_usable answered, per detector
    scope_of,         \* what has_system_scope answers on this target, per detector
    deps_of,          \* what get_dependencies answered, per detector
    active_count,     \* package detectors that responded on this target
    project_packages, \* resolve_dependencies locals
    project_metadata,
    system_packages,
    system_metadata,
    result,           \* the dictionary under construction / returned
    oraised,          \* the exception resolve_dependencies propagates
    venv_path,        \* Orchestrator(venv_path=...), handed to PipDetector
    pip_env,          \* what the target answers to the pip detector's commands
    pip_cache,        \* PipDetector._cached_venv_path / _venv_path_searched
    pip_cmds,         \* commands the pip detector has issued
    npm_env,          \* what the target answers to the npm detector's commands
    \* ---- the orchestrator of src/core -----------------------------------
    debug,            \* Orchestrator.debug
    \* ---- repeated calls --------------------------------------------------
    history,          \* the earlier resolve_dependencies calls and their outcomes
    \* ---- single operations ---------------------------------------------
    ucall,            \* the operation applied and its inputs
    uret,             \* what it returned, NotRun before it ran
    exec_runs         \* the calls it made: commands handed to the target, constructors

bvars == <<requests, fail_fast, progress_callback, progress_calls, max_workers, docker_client, bpc, fstate,
           foutcome, yielded, results, completed_count, cancel_i, returned,
           raised>>
ovars == <<opc, executor_type, working_dir, skip_system_scope,
           only_container_info, detectors_to_run, di, calls, usable_of,
           scope_of, deps_of, active_count, project_packages,
           project_metadata, system_packages, system_metadata, result,
           oraised, venv_path, pip_env, pip_cache, pip_cmds, npm_env>>
uvars == <<ucall, uret, exec_runs>>
xvars == <<debug, history, uvars>>
vars == <<bvars, ovars, xvars>>

\* ------------------------------------------------------------------------
\* Batch resolver: the target the requests run against
\* ------------------------------------------------------------------------
\* status of the containers known to the daemon ("missing": no such container)
ContainerStatus(id) ==
    CASE id = "web" -> "running"
      [] id = "db" -> "exited"
      [] OTHER -> "missing"

\* the paths that exist on every target of the batch model
ExistingDirs == {"/proj"}

Raise(type, msg) == [kind |-> "exception", type |-> type, msg |-> msg]
Value(v) == [kind |-> "value", value |-> v]

\* a DockerExecutor that does not look at the container before first use
DockerExecutorInitLazy(id, client) ==
    IF client = "DockerException"
    THEN Raise("DockerException", "Error while fetching server API version")
    ELSE IF client = "APIError"
    THEN Raise("RuntimeError", "Docker API error")
    ELSE Value([type |-> "DockerExecutor", id |-> id])

\* DockerExecutor.__init__
DockerExecutorInit(id, client) ==
    IF client = "DockerException"
    THEN Raise("DockerException", "Error while fetching server API version")
    ELSE IF client = "APIError"
    THEN Raise("RuntimeError", "Docker API error")
    ELSE IF ContainerStatus(id) = "missing"
    THEN Raise("RuntimeError", "Container not found")
    ELSE IF ContainerStatus(id) # "running"
    THEN Raise("RuntimeError", "Container is not running")
    ELSE Value([type |-> "DockerExecutor", id |-> id])

\* DockerComposeExecutor.__init__
DockerComposeExecutorInit(id, client) ==
    IF client = "DockerException"
    THEN Raise("DockerException", "Error while fetching server API version")
    ELSE IF client = "APIError"
    THEN Raise("RuntimeError", "Docker API error")
    ELSE IF id # "stack"
    THEN Raise("RuntimeError", "No running containers found for Docker Compose stack")
    ELSE Value([type |-> "DockerComposeExecutor", id |-> id])

\* DependencyResolver._create_executor
CreateExecutor(request, client) ==
    IF request.environment_type = "host"
    THEN Value([type |-> "HostExecutor", id |-> NoneStr])
    ELSE IF request.environment_type = "docker"
    THEN IF request.environment_identifier = NoneStr
         THEN Raise("ValueError", "Docker environment requires container identifier")
         ELSE DockerExecutorInit(request.environment_identifier, client)
    ELSE IF request.environment_type = "docker_compose"
    THEN IF request.environment_identifier = NoneStr
         THEN Raise("ValueError", "Docker Compose environment requires service identifier")
         ELSE DockerComposeExecutorInit(request.environment_identifier, client)
    ELSE Raise("ValueError", "Unsupported environment type")

\* a compose executor that looks for the path like the others
PathExistsOnAny(executor, path) == path \in ExistingDirs

\* EnvironmentExecutor.path_exists as the three executors answer it
PathExists(executor, path) ==
    IF executor.type = "DockerComposeExecutor" THEN FALSE
    ELSE path \in ExistingDirs

\* Orchestrator.resolve_dependencies as _resolve_single sees it: the
\* working-directory check, then a dictionary
OrchestratorOutcome(executor, wd) ==
    IF wd # NoneStr /\ ~PathExists(executor, wd)
    THEN Raise("ValueError", "Working directory does not exist")
    ELSE Value(<<"dependencies of", executor.type, executor.id>>)

ResolveResult(request, dependencies, error, success) ==
    [request |-> request, dependencies |-> dependencies,
     error |-> error, success |-> success]

NoDependencies == <<>>

\* the result _resolve_single builds in its except clause
FailedResult(request, exc) == ResolveResult(request, NoDependencies, exc.msg, FALSE)

\* DependencyResolver._resolve_single: what the future of this request holds
ResolveSingle(request, client) ==
    LET ex == CreateExecutor(request, client) IN
    IF ex.kind = "exception"
    THEN IF ex.type \in CaughtExceptions
         THEN Value(FailedResult(request, ex))
         ELSE ex
    ELSE LET deps == OrchestratorOutcome(ex.value, request.working_dir) IN
         IF deps.kind = "exception"
         THEN IF deps.type \in CaughtExceptions
              THEN Value(FailedResult(request, deps))
              ELSE deps
         ELSE Value(ResolveResult(request, deps.value, NoneStr, TRUE))

\* ------------------------------------------------------------------------
\* Orchestrator: detectors and the target they inspect
\* ------------------------------------------------------------------------
\* Orchestrator.__init__: the detector list, in registration order
Detectors == <<"docker-info", "dpkg", "apk", "maven", "pip", "npm">>

\* a Python dict as a function on its keys
EmptyDict == [x \in {} |-> {}]
DictSet(dct, k, v) == [x \in (DOMAIN dct) \cup {k} |-> IF x = k THEN v ELSE dct[x]]

\* a path is the sequence of its components; None and "" are the empty one
NoPath == <<>>
SystemLocation == <<"system">>
Unasked == [kind |-> "unasked"]

\* what a detector hands back: (packages, metadata); metadata is a set of
\* <<key, value>> pairs
Dependencies(packages, metadata) == [packages |-> packages, metadata |-> metadata]
Package(name, type) == [name |-> name, version |-> "1.0", type |-> type]

\* --- the container-identity detector ------------------------------------
\* DockerInfoDetector.is_usable
DockerInfoIsUsable(ex) == Value(ex = "DockerExecutor")

\* DockerInfoDetector.has_system_scope
DockerInfoHasSystemScope == Value(FALSE)

\* DockerInfoDetector.get_dependencies over DockerExecutor.get_container_info:
\* the container's identity, the same with an "error" entry, or the daemon's
\* APIError out of container.reload()
DockerInfoGetDependencies(ex) ==
    IF ex # "DockerExecutor"
    THEN {Value(Dependencies(<<>>, {}))}
    ELSE {Value(Dependencies(<<>>, {<<"name", <<"web">>>>, <<"image", <<"nginx">>>>,
                                     <<"hash", <<"sha256:1">>>>})),
          Raise("APIError", "container.reload() failed")}

\* --- a package detector seen through the PackageManagerDetector contract -
\* exceptions an operation may end in: one the except clause names and one
\* it does not
DetectorExceptions ==
    {Raise("RuntimeError", "Failed to resolve path"), Raise("TypeError", "unexpected type")}

\* is_usable: a boolean or an exception
IsUsableAnswers == {Value(TRUE), Value(FALSE)} \cup DetectorExceptions

\* has_system_scope: a boolean or an exception
HasSystemScopeAnswers == {Value(TRUE), Value(FALSE)} \cup DetectorExceptions

\* get_dependencies: (packages, metadata) or an exception
GetDependenciesAnswers(d) ==
    { Value(Dependencies(<<>>, {})),
      Value(Dependencies(<<Package("a", d)>>, {})),
      Value(Dependencies(<<>>, {<<"location", <<"/proj">>>>})),
      Value(Dependencies(<<Package("a", d)>>,
                         {<<"location", <<"/proj">>>>, <<"hash", <<"sha256:2">>>>})) }
    \cup DetectorExceptions

\* --- the pip detector ------------------------------------------------------
\* what the target answers to the commands of the pip detector:
\*   version_ok : "pip --version" exits 0
\*   markers    : the directories that hold a pyvenv.cfg
\*   venv_pip   : <venv>/bin/pip exists
\*   resolve_ok : "cd '<dir>' && pwd" exits 0
\*   show_ok    : "pip show pip" exits 0 and prints a Location: line
\*   list       : "pip list --format=freeze" fails, prints nothing, one line
\*   order      : the order in which find walks the files of a location
\*   virtual_env : what "echo $VIRTUAL_ENV" prints, NoPath for nothing
InactivePipEnv ==
    [version_ok |-> FALSE, markers |-> {}, venv_pip |-> FALSE,
     resolve_ok |-> TRUE, show_ok |-> TRUE, list |-> "empty", order |-> <<1, 2, 3>>,
     virtual_env |-> NoPath]

ActivePipEnvs ==
    { e \in [version_ok : {TRUE},
             markers : {{}, {<<"/proj", "venv">>}, {<<"/opt", "app">>}},
             venv_pip : BOOLEAN,
             resolve_ok : BOOLEAN,
             show_ok : BOOLEAN,
             list : {"fail", "empty", "one"},
             order : {<<1, 2, 3>>},
             virtual_env : {NoPath}] :
        e.markers = {} => ~e.venv_pip }

NoCache == [path |-> NoPath, searched |-> FALSE]

\* result of one detector-internal call: the outcome, the detector's cache
\* afterwards and the commands it issued
Call(out, cache, cmds) == [out |-> out, cache |-> cache, cmds |-> cmds]

\* PipDetector.is_usable
PipIsUsable(env) == Value(env.version_ok)

\* PipDetector._resolve_absolute_path
PipResolveAbsolutePath(env, path) ==
    IF env.resolve_ok
    THEN Value(IF path = "." THEN <<"/cwd">> ELSE <<path>>)
    ELSE Raise("RuntimeError", "Failed to resolve path")

\* an executor that is never taken for the host
IsHostExecutorNever(ex) == FALSE

\* isinstance(executor, HostExecutor)
IsHostExecutor(ex) == ex = "HostExecutor"

\* a detector that forgets what it found
CacheHitNever(cache) == FALSE

\* pip_detector.py:103: if self._venv_path_searched
CacheHit(cache) == cache.searched

\* the list of candidates _find_venv_path hands to its find command
PipSearchPaths(ex, wd, explicit, virtual_env, resolved) ==
    LET search_dir == IF wd # NoneStr THEN <<wd>> ELSE <<".">>
        name == IF resolved = NoPath THEN "" ELSE resolved[Len(resolved)]
    IN  (IF explicit # NoPath THEN <<explicit>> ELSE <<>>)
        \o (IF ~IsHostExecutor(ex) /\ virtual_env # NoPath THEN <<virtual_env>> ELSE <<>>)
        \o << search_dir,
              search_dir \o <<"venv">>,
              search_dir \o <<".venv">>,
              search_dir \o <<"env">>,
              search_dir \o <<".env">>,
              search_dir \o <<"virtualenv">> >>
        \o (IF wd # NoneStr
            THEN << <<"~/.virtualenvs", name>>,
                    <<"~/.local/share/virtualenvs", name>>,
                    <<"~/.cache/pypoetry/virtualenvs", name>>,
                    <<"~/.pyenv/versions", name>> >>
            ELSE <<>>)

\* a find that reports the last hit
LastWithMarker(paths, markers) ==
    LET hits == {k \in 1..Len(paths) : paths[k] \in markers}
    IN  IF hits = {} THEN NoPath
        ELSE paths[CHOOSE k \in hits : \A l \in hits : k >= l]

\* find <paths> -maxdepth 1 -name pyvenv.cfg | head -1, then dirname
FirstWithMarker(paths, markers) ==
    LET hits == {k \in 1..Len(paths) : paths[k] \in markers}
    IN  IF hits = {} THEN NoPath
        ELSE paths[CHOOSE k \in hits : \A l \in hits : k <= l]

\* find /opt /home /usr/local -name pyvenv.cfg | head -1, then dirname
SystemWideFind(markers) ==
    LET hits == {m \in markers : m[1] \in {"/opt", "/home", "/usr/local"}}
    IN  IF hits = {} THEN NoPath ELSE CHOOSE m \in hits : TRUE

\* PipDetector._find_venv_path
PipFindVenvPath(cache, env, ex, wd, explicit) ==
    LET Found(hit, found) ==
            Call(Value(found), [path |-> found, searched |-> TRUE],
                 {"find candidates"}
                 \cup (IF ~IsHostExecutor(ex) THEN {"echo $VIRTUAL_ENV"} ELSE {})
                 \cup (IF wd # NoneStr THEN {"cd && pwd"} ELSE {})
                 \cup (IF hit = NoPath /\ ~IsHostExecutor(ex)
                       THEN {"find system-wide"} ELSE {}))
        Fallback(hit) ==
            Found(hit, IF hit # NoPath THEN hit
                       ELSE IF ~IsHostExecutor(ex) THEN SystemWideFind(env.markers)
                       ELSE NoPath)
        Search(res) ==
            IF res.kind = "exception"
            THEN Call(res, cache, {"cd && pwd"}
                            \cup (IF ~IsHostExecutor(ex) THEN {"echo $VIRTUAL_ENV"} ELSE {}))
            ELSE Fallback(FirstWithMarker(PipSearchPaths(ex, wd, explicit, env.virtual_env, res.value),
                                          env.markers))
    IN  IF CacheHit(cache)
        THEN Call(Value(cache.path), cache, {})
        ELSE Search(IF wd # NoneStr THEN PipResolveAbsolutePath(env, wd) ELSE Value(NoPath))

\* PipDetector._get_pip_command: the venv whose bin/pip is used, NoPath for
\* the plain "pip"
PipGetPipCommand(cache, env, ex, wd, explicit) ==
    LET Command(fv) ==
            IF fv.out.kind = "exception" THEN fv
            ELSE Call(Value(IF fv.out.value # NoPath /\ env.venv_pip
                            THEN fv.out.value ELSE NoPath),
                      fv.cache, fv.cmds)
    IN  Command(PipFindVenvPath(cache, env, ex, wd, explicit))

\* PipDetector._get_pip_location
PipGetPipLocation(cache, env, ex, wd, explicit) ==
    LET Location(pc) ==
            IF pc.out.kind = "exception" THEN pc
            ELSE Call(Value(IF ~env.show_ok THEN SystemLocation
                            ELSE IF pc.out.value # NoPath
                            THEN pc.out.value \o <<"lib/site-packages">>
                            ELSE <<"/usr/lib/python3", "site-packages">>),
                      pc.cache, pc.cmds \cup {"pip show pip"})
    IN  Location(PipGetPipCommand(cache, env, ex, wd, explicit))

\* PipDetector.has_system_scope
PipHasSystemScope(cache, env, ex, wd, explicit) ==
    LET IsSystem(loc) ==
            IF loc.out.kind = "exception" THEN loc
            ELSE Call(Value(loc.out.value = SystemLocation), loc.cache, loc.cmds)
    IN  IsSystem(PipGetPipLocation(cache, env, ex, wd, explicit))

\* the files find reports under a location, as "%s %p" (size, path), and
\* the byte-wise order of their paths (LC_COLLATE=C)
LocationFiles ==
    << [size |-> 10, path |-> "./b.py"],
       [size |-> 2, path |-> "./c.py"],
       [size |-> 10, path |-> "./a.py"] >>
PathRank(path) == CASE path = "./a.py" -> 1 [] path = "./b.py" -> 2 [] path = "./c.py" -> 3

\* the orders find may walk the files in
TraversalOrders ==
    {o \in [1..Len(LocationFiles) -> 1..Len(LocationFiles)] :
        \A i, j \in 1..Len(LocationFiles) : i # j => o[i] # o[j]}

\* the output of find, in the order of the walk
FindListing(order) == [k \in 1..Len(LocationFiles) |-> LocationFiles[order[k]]]

\* a pipeline without the sort
SortListingNone(listing) == listing

\* sort -n -k1,1 -k2,2: by size, then by path
SortListing(listing) ==
    SortSeq(listing, LAMBDA x, y : \/ x.size < y.size
                                  \/ (x.size = y.size /\ PathRank(x.path) < PathRank(y.path)))

\* PipDetector._generate_location_hash: sha256 over the sorted listing
PipGenerateLocationHash(env, location) ==
    <<"sha256 of", location, SortListing(FindListing(env.order))>>

\* PipDetector.get_dependencies, from the listing command on (lines 48-77)
PipListDependencies(cache, env, ex, wd, explicit) ==
    LET packages == IF env.list = "one" THEN <<Package("requests", "pip")>> ELSE <<>>
        Listed(loc, location, cmds) ==
            IF env.list = "fail"
            THEN Call(Value(Dependencies(<<>>,
                          IF location = SystemLocation THEN {}
                          ELSE {<<"location", location>>})),
                      loc.cache, cmds)
            ELSE IF location = SystemLocation
            THEN Call(Value(Dependencies(packages, {})), loc.cache, cmds)
            ELSE IF packages # <<>>
            THEN Call(Value(Dependencies(packages,
                          {<<"location", location>>,
                           <<"hash", PipGenerateLocationHash(env, location)>>})),
                      loc.cache, cmds \cup {"find for hash"})
            ELSE Call(Value(Dependencies(packages, {<<"location", location>>})),
                      loc.cache, cmds)
        List(loc) ==
            IF loc.out.kind = "exception"
            THEN Call(loc.out, loc.cache, loc.cmds \cup {"pip list"})
            ELSE Listed(loc, loc.out.value, loc.cmds \cup {"pip list"})
    IN  List(PipGetPipLocation(cache, env, ex, wd, explicit))

\* PipDetector.get_dependencies
PipGetDependencies(cache, env, ex, wd, explicit) ==
    LET NoVenv(fv, location) ==
            IF location.kind = "exception"
            THEN Call(location, fv.cache, fv.cmds \cup {"cd && pwd"})
            ELSE Call(Value(Dependencies(<<>>, {<<"location", location.value>>})),
                      fv.cache, fv.cmds \cup {"cd && pwd"})
        InVenv(fv, ls) == Call(ls.out, ls.cache, fv.cmds \cup ls.cmds)
        WithWorkingDir(fv) ==
            IF fv.out.kind = "exception" THEN fv
            ELSE IF fv.out.value = NoPath
            THEN NoVenv(fv, PipResolveAbsolutePath(env, wd))
            ELSE InVenv(fv, PipListDependencies(fv.cache, env, ex, wd, explicit))
    IN  IF wd # NoneStr
        THEN WithWorkingDir(PipFindVenvPath(cache, env, ex, wd, explicit))
        ELSE PipListDependencies(cache, env, ex, wd, explicit)

\* --- the npm detector ------------------------------------------------------
\* the lockfiles of the competing package managers (npm_detector.py:31)
NpmExclusions == {"yarn.lock", "pnpm-lock.yaml", "bun.lockb"}

\* what the target answers to the commands and path checks of the npm
\* detector:
\*   version_ok   : "npm --version" exits 0
\*   files        : which of package.json, package-lock.json, node_modules
\*                  and the competing lockfiles exist in the search directory
\*   resolve_ok   : "pwd" / "cd '<dir>' && pwd" exits 0
\*   list         : "npm list --json --depth=0" fails, lists nothing, one package
InactiveNpmEnv ==
    [version_ok |-> FALSE, files |-> {}, resolve_ok |-> TRUE, list |-> "empty"]

NpmFileSets ==
    { {}, {"package.json"}, {"package.json", "yarn.lock"}, {"package-lock.json"},
      {"node_modules", "package-lock.json"}, {"package-lock.json", "pnpm-lock.yaml"} }

ActiveNpmEnvs ==
    { e \in [version_ok : {TRUE},
             files : NpmFileSets,
             resolve_ok : BOOLEAN,
             list : {"fail", "empty", "one"}] :
        \* what is never looked at keeps one value
        (e.files \in {{}, {"package.json", "yarn.lock"}})
            => (e.resolve_ok /\ e.list = "empty") }

\* NpmDetector.is_usable
NpmIsUsable(env) ==
    IF ~env.version_ok THEN Value(FALSE)
    ELSE IF "package.json" \in env.files
    THEN Value(env.files \cap NpmExclusions = {})
    ELSE Value("package-lock.json" \in env.files)

\* NpmDetector._resolve_absolute_path
NpmResolveAbsolutePath(env, path) ==
    IF env.resolve_ok
    THEN Value(IF path = "." THEN <<"/cwd">> ELSE <<path>>)
    ELSE Raise("RuntimeError", "Failed to resolve path")

\* NpmDetector._get_npm_location
NpmGetNpmLocation(env, wd) ==
    LET search_dir == IF wd # NoneStr THEN wd ELSE "." IN
    IF "package.json" \in env.files THEN NpmResolveAbsolutePath(env, search_dir)
    ELSE IF "node_modules" \in env.files THEN NpmResolveAbsolutePath(env, search_dir)
    ELSE Value(SystemLocation)

\* NpmDetector.has_system_scope
NpmHasSystemScope(env, wd) ==
    LET IsSystem(loc) ==
            IF loc.kind = "exception" THEN loc ELSE Value(loc.value = SystemLocation)
    IN  IsSystem(NpmGetNpmLocation(env, wd))

\* NpmDetector._generate_location_hash
NpmGenerateLocationHash(location) == <<"sha256 of">> \o location

\* a hash entry written whether or not a package was found
NpmHashEntryAlways(packages, location) ==
    {<<"hash", NpmGenerateLocationHash(location)>>}

\* npm_detector.py:81-82: the hash entry of the project metadata
NpmHashEntry(packages, location) ==
    IF packages # <<>> THEN {<<"hash", NpmGenerateLocationHash(location)>>} ELSE {}

\* NpmDetector.get_dependencies
NpmGetDependencies(env, wd) ==
    LET packages == IF env.list = "one" THEN <<Package("express", "npm")>> ELSE <<>>
        Listed(location) ==
            IF env.list = "fail"
            THEN Dependencies(<<>>, IF location = SystemLocation THEN {}
                                    ELSE {<<"location", location>>})
            ELSE IF location = SystemLocation
            THEN Dependencies(packages, {})
            ELSE Dependencies(packages,
                              {<<"location", location>>} \cup NpmHashEntry(packages, location))
        From(loc) == IF loc.kind = "exception" THEN loc ELSE Value(Listed(loc.value))
    IN  From(NpmGetNpmLocation(env, wd))

\* ------------------------------------------------------------------------
\* Batch resolver: state machine
\* ------------------------------------------------------------------------
\* the request descriptors a caller submits; metadata is the caller's
\* tracking tag (set to the submission index in InitBatch)
RequestKinds ==
    { [environment_type |-> "host", environment_identifier |-> NoneStr, working_dir |-> "/proj"],
      [environment_type |-> "host", environment_identifier |-> NoneStr, working_dir |-> "/missing"],
      [environment_type |-> "docker", environment_identifier |-> "web", working_dir |-> NoneStr],
      [environment_type |-> "docker", environment_identifier |-> "gone", working_dir |-> NoneStr] }

ResolveRequest(k, tag) ==
    [environment_type |-> k.environment_type,
     environment_identifier |-> k.environment_identifier,
     working_dir |-> k.working_dir,
     metadata |-> tag]

NoResult == [kind |-> "None"]
N == Len(requests)
Indices == 1..N

\* the locals of resolve_dependencies and the detectors as constructed
OrchFresh ==
    /\ detectors_to_run = <<>>
    /\ di = 0
    /\ calls = <<>>
    /\ usable_of = [d \in Range(Detectors) |-> Unasked]
    /\ scope_of = [d \in Range(Detectors) |-> Unasked]
    /\ deps_of = [d \in Range(Detectors) |-> Unasked]
    /\ active_count = 0
    /\ project_packages = <<>>
    /\ project_metadata = EmptyDict
    /\ system_packages = <<>>
    /\ system_metadata = EmptyDict
    /\ result = EmptyDict
    /\ oraised = Unasked
    /\ pip_env = InactivePipEnv
    /\ npm_env = InactiveNpmEnv
    /\ pip_cache = NoCache
    /\ pip_cmds = {}

\* the parts a specification does not exercise stay as constructed
InitCoreIdle == debug = FALSE
InitReuseIdle == history = <<>>
\* no operation chosen, and no result yet
NoCall == [fn |-> NoneStr]
NotRun == [kind |-> NoneStr]
InitUnitIdle == ucall = NoCall /\ uret = NotRun /\ exec_runs = <<>>
InitOthersIdle ==
    /\ InitCoreIdle
    /\ InitReuseIdle
    /\ InitUnitIdle

InitOrchIdle ==
    /\ opc = "idle"
    /\ executor_type = "HostExecutor"
    /\ working_dir = NoneStr
    /\ skip_system_scope = FALSE
    /\ only_container_info = FALSE
    /\ venv_path = NoPath
    /\ OrchFresh

InitBatch ==
    /\ \E n \in 0..MaxRequests :
         \E ks \in [1..n -> RequestKinds] :
            requests = [i \in 1..n |-> ResolveRequest(ks[i], i)]
    /\ fail_fast \in BOOLEAN
    /\ progress_callback \in BOOLEAN
    /\ progress_calls = <<>>
    /\ max_workers \in 1..MaxWorkers
    /\ docker_client \in {"ok", "APIError", "DockerException"}
    /\ bpc = "start"
    /\ fstate = [i \in 1..Len(requests) |-> "unsubmitted"]
    /\ foutcome = [i \in 1..Len(requests) |-> NoResult]
    /\ yielded = {}
    /\ results = [i \in 1..Len(requests) |-> NoResult]
    /\ completed_count = 0
    /\ cancel_i = 0
    /\ returned = <<>>
    /\ raised = NoneStr
    /\ InitOrchIdle
    /\ InitOthersIdle

\* resolver.py:126-134: the empty list returns at once, otherwise every
\* request is submitted to the pool
Submit ==
    /\ bpc = "start"
    /\ IF N = 0
       THEN /\ bpc' = "returned"
            /\ UNCHANGED fstate
       ELSE /\ bpc' = "collect"
            /\ fstate' = [i \in Indices |-> "pending"]
    /\ UNCHANGED <<requests, fail_fast, progress_callback, progress_calls,
                   max_workers, docker_client, foutcome,
                   yielded, results, completed_count, cancel_i, returned, raised, ovars, xvars>>

Running == {i \in Indices : fstate[i] = "running"}
Pending == {i \in Indices : fstate[i] = "pending"}

\* a pool thread takes the oldest queued work item (FIFO queue); a cancelled
\* item is dropped by set_running_or_notify_cancel
WorkerStart(i) ==
    /\ fstate[i] = "pending"
    /\ \A j \in Pending : i <= j
    /\ Cardinality(Running) < max_workers
    /\ fstate' = [fstate EXCEPT ![i] = "running"]
    /\ UNCHANGED <<requests, fail_fast, progress_callback, progress_calls,
                   max_workers, docker_client, bpc, foutcome,
                   yielded, results, completed_count, cancel_i, returned, raised, ovars, xvars>>

\* the thread runs _resolve_single to its end and stores the outcome
WorkerFinish(i) ==
    /\ fstate[i] = "running"
    /\ fstate' = [fstate EXCEPT ![i] = "finished"]
    /\ foutcome' = [foutcome EXCEPT ![i] = ResolveSingle(requests[i], docker_client)]
    /\ UNCHANGED <<requests, fail_fast, progress_callback, progress_calls,
                   max_workers, docker_client, bpc,
                   yielded, results, completed_count, cancel_i, returned, raised, ovars, xvars>>

\* a store at the completion position instead of the submission index
StoreResultByCompletion(rs, index, count, res) == [rs EXCEPT ![count] = res]

\* resolver.py:140: results[index] = result
StoreResult(rs, index, count, res) == [rs EXCEPT ![index] = res]

\* a loop that goes on after a failure
StopsAtFailureNever(ff, res) == FALSE

\* resolver.py:148: if fail_fast and not result.success
StopsAtFailure(ff, res) == ff /\ ~res.success

\* resolver.py:143-145: if progress_callback: progress_callback(count, total, result)
ProgressCallback(given, log, completed, total, res) ==
    IF given
    THEN Append(log, [completed |-> completed, total |-> total, result |-> res])
    ELSE log

\* resolver.py:137-153: one iteration of the as_completed loop
Collect(i) ==
    /\ bpc = "collect"
    /\ fstate[i] = "finished"
    /\ i \notin yielded
    /\ yielded' = yielded \cup {i}
    /\ IF foutcome[i].kind = "exception"
       THEN \* future.result() re-raises; the with block is left
            /\ raised' = foutcome[i].type
            /\ bpc' = "shutdown"
            /\ UNCHANGED <<results, completed_count, cancel_i, progress_calls>>
       ELSE /\ results' = StoreResult(results, i, completed_count + 1, foutcome[i])
            /\ completed_count' = completed_count + 1
            /\ progress_calls' = ProgressCallback(progress_callback, progress_calls,
                                                  completed_count + 1, N, foutcome[i].value)
            /\ raised' = raised
            /\ IF StopsAtFailure(fail_fast, foutcome[i].value)
               THEN bpc' = "cancel" /\ cancel_i' = 1
               ELSE /\ cancel_i' = cancel_i
                    /\ bpc' = IF yielded' = Indices THEN "shutdown" ELSE "collect"
    /\ UNCHANGED <<requests, fail_fast, progress_callback, max_workers, docker_client,
                   fstate, foutcome, returned, ovars, xvars>>

\* a cancel() that never takes effect
FutureCancelNever(st) == st

\* Future.cancel(): only a pending future is cancelled
FutureCancel(st) == IF st = "pending" THEN "cancelled" ELSE st

\* resolver.py:150-153: one iteration of the cancel loop, then break
CancelStep ==
    /\ bpc = "cancel"
    /\ fstate' = [fstate EXCEPT ![cancel_i] =
                    IF fstate[cancel_i] \in {"finished", "cancelled"}
                    THEN fstate[cancel_i]
                    ELSE FutureCancel(fstate[cancel_i])]
    /\ IF cancel_i = N
       THEN bpc' = "shutdown" /\ cancel_i' = cancel_i
       ELSE bpc' = bpc /\ cancel_i' = cancel_i + 1
    /\ UNCHANGED <<requests, fail_fast, progress_callback, progress_calls,
                   max_workers, docker_client, foutcome,
                   yielded, results, completed_count, returned, raised, ovars, xvars>>

\* resolver.py:155: the list comprehension that drops the empty slots
SelectResults(rs) == SelectSeq(rs, LAMBDA r : r.kind # "None")

ReturnedList(rs) ==
    LET kept == SelectResults(rs) IN [k \in 1..Len(kept) |-> kept[k].value]

\* leaving the with block: shutdown(wait=True) joins the pool threads, then
\* resolve_batch returns the list or lets the exception out
Shutdown ==
    /\ bpc = "shutdown"
    /\ Running = {}
    /\ Pending = {}
    /\ IF raised # NoneStr
       THEN bpc' = "raised" /\ returned' = returned
       ELSE bpc' = "returned" /\ returned' = ReturnedList(results)
    /\ UNCHANGED <<requests, fail_fast, progress_callback, progress_calls,
                   max_workers, docker_client, fstate, foutcome,
                   yielded, results, completed_count, cancel_i, raised, ovars, xvars>>

NextBatch ==
    \/ Submit
    \/ \E i \in Indices : WorkerStart(i)
    \/ \E i \in Indices : WorkerFinish(i)
    \/ \E i \in Indices : Collect(i)
    \/ CancelStep
    \/ Shutdown

SpecBatch == InitBatch /\ [][NextBatch]_vars

\* ------------------------------------------------------------------------
\* Batch resolver: properties
\* ------------------------------------------------------------------------
Terminated == bpc \in {"returned", "raised"}

\* the outcome of the request at index i when it is resolved on its own
Alone(i) == ResolveSingle(requests[i], docker_client)

\* C1: with fail_fast disabled, resolve_batch on a non-empty request list
\* returns a list as long as the request list whose entry i is the
\* ResolveResult of the request submitted at index i.
C1_ReturnsEveryResultInPlace ==
    (Terminated /\ ~fail_fast /\ N > 0) =>
        /\ bpc = "returned"
        /\ Len(returned) = N
        /\ \A i \in Indices : returned[i].request = requests[i]

\* C2: (stated for fail_fast disabled) every request whose construction or
\* resolution raises RuntimeError, OSError or ValueError is delivered as its
\* own ResolveResult with success=False, a non-empty error and no
\* dependencies, and every request that yields a ResolveResult on its own is
\* delivered with the same success flag and dependencies.
C2_FailureIsolatedPerRequest ==
    (Terminated /\ ~fail_fast) =>
        \A i \in Indices :
            Alone(i).kind = "value" =>
                \E k \in 1..Len(returned) :
                    /\ returned[k].request = requests[i]
                    /\ returned[k].success = Alone(i).value.success
                    /\ returned[k].dependencies = Alone(i).value.dependencies
                    /\ ~returned[k].success =>
                         /\ returned[k].error # ""
                         /\ returned[k].error # NoneStr
                         /\ returned[k].dependencies = NoDependencies

\* C3: resolve_batch never raises because of a request's failure, whatever
\* exception the request's construction or resolution raised.
C3_BatchNeverRaises == bpc # "raised" /\ raised = NoneStr

\* C4 (as claimed): the entry at index i of the returned list belongs to the
\* request submitted at index i, for every call, fail_fast included.
C4_PositionallyEqual ==
    bpc = "returned" =>
        \A k \in 1..Len(returned) : returned[k].request = requests[k]

\* C4 (amended): the returned list holds the processed results in submission
\* order, each the result of its own request; it is positionally equal to
\* the request list whenever no request was left out.
C4_SubmissionOrderKept ==
    bpc = "returned" =>
        /\ \A k \in 1..Len(returned) :
              /\ returned[k].request \in Range(requests)
              /\ returned[k] = Alone(returned[k].request.metadata).value
        /\ \A k, l \in 1..Len(returned) :
              k < l => returned[k].request.metadata < returned[l].request.metadata
        /\ Len(returned) = N =>
              \A k \in Indices : returned[k].request = requests[k]

\* a fail_fast call returned after leaving out the first submitted request
C4_Witness ==
    /\ bpc = "returned"
    /\ fail_fast
    /\ Len(returned) = 2
    /\ N = 3
    /\ returned[1].request = requests[2]

\* the first failed result has been processed: stored, and the cancel loop
\* over the remaining futures has run to its break
FailFastProcessed ==
    /\ fail_fast
    /\ bpc \in {"shutdown", "returned"}
    /\ \E i \in Indices : results[i].kind = "value" /\ ~results[i].value.success

\* C5: with fail_fast=True, once the first failed result has been processed
\* no request that had not started is ever started (it is cancelled and
\* stays cancelled), and a request that is executing is never interrupted:
\* it stays running until it finishes, which it does before the return.
C5_FailFastSkipsOnlyUnstarted ==
    [][ /\ FailFastProcessed =>
            /\ Pending = {}
            /\ \A i \in Indices : fstate[i] # "running" => fstate'[i] # "running"
            /\ \A i \in Indices : fstate[i] = "cancelled" => fstate'[i] = "cancelled"
        /\ \A i \in Indices :
              fstate[i] = "running" => fstate'[i] \in {"running", "finished"}
        /\ (fail_fast /\ bpc' = "returned") => Running' = {}
      ]_vars

\* a failure was processed while one request was executing and another had
\* not started
C5_Witness ==
    /\ FailFastProcessed
    /\ \E i \in Indices : fstate[i] = "cancelled"
    /\ \E j \in Indices : fstate[j] = "running"

\* ------------------------------------------------------------------------
\* Orchestrator: state machine of one resolve_dependencies run
\* ------------------------------------------------------------------------
InitBatchIdle ==
    /\ requests = <<>>
    /\ fail_fast = FALSE
    /\ progress_callback = FALSE
    /\ progress_calls = <<>>
    /\ max_workers = 1
    /\ docker_client = "ok"
    /\ bpc = "idle"
    /\ fstate = <<>>
    /\ foutcome = <<>>
    /\ yielded = {}
    /\ results = <<>>
    /\ completed_count = 0
    /\ cancel_i = 0
    /\ returned = <<>>
    /\ raised = NoneStr

InitOrch ==
    /\ opc = "validate"
    /\ executor_type \in {"HostExecutor", "DockerExecutor", "DockerComposeExecutor"}
    /\ working_dir \in {NoneStr, "/proj", "/missing"}
    /\ skip_system_scope \in BOOLEAN
    /\ only_container_info \in BOOLEAN
    /\ venv_path = NoPath
    /\ OrchFresh
    /\ InitBatchIdle
    /\ InitOthersIdle

\* a selection that ignores only_container_info
DetectorsToRunAll(only) == Detectors

\* orchestrator.py:49-53: the detectors one call goes through
DetectorsToRun(only) ==
    IF only
    THEN SelectSeq(Detectors, LAMBDA d : d = "docker-info")
    ELSE Detectors

\* a check that lets every directory pass
WorkingDirMissingNever(ex, wd) == FALSE

\* orchestrator.py:40: working_dir is not None and not executor.path_exists(...)
WorkingDirMissing(ex, wd) == wd # NoneStr /\ ~PathExists([type |-> ex], wd)

\* orchestrator.py:39-53: the working-directory check and the choice of the
\* detectors to run
OValidate ==
    /\ opc = "validate"
    /\ calls' = IF working_dir # NoneStr
                THEN Append(calls, <<"executor", "path_exists">>) ELSE calls
    /\ IF WorkingDirMissing(executor_type, working_dir)
       THEN /\ opc' = "raised"
            /\ oraised' = Raise("ValueError", "Working directory does not exist")
            /\ UNCHANGED <<detectors_to_run, di>>
       ELSE /\ detectors_to_run' = DetectorsToRun(only_container_info)
            /\ di' = 1
            /\ opc' = IF detectors_to_run' = <<>> THEN "aggregate" ELSE "is_usable"
            /\ oraised' = oraised
    /\ UNCHANGED <<executor_type, working_dir, skip_system_scope, only_container_info,
                   usable_of, scope_of, deps_of, active_count, project_packages,
                   project_metadata, system_packages, system_metadata, result,
                   venv_path, pip_env, pip_cache, pip_cmds, npm_env, bvars, xvars>>

\* the loop moves on to the next detector, or ends
Continue ==
    /\ di' = di + 1
    /\ opc' = IF di < Len(detectors_to_run) THEN "is_usable" ELSE "aggregate"
    /\ oraised' = oraised

\* orchestrator.py:106-109: the except clause around one detector
OnException(exc) ==
    IF exc.type \in CaughtExceptions
    THEN Continue
    ELSE /\ opc' = "raised"
         /\ di' = di
         /\ oraised' = exc

\* DockerComposeExecutor.execute_command answers every command with exit
\* code 1; the other executors run it
CommandsRun(ex) == ex # "DockerComposeExecutor"

\* what detector d answers to is_usable on this target, with the pip and
\* npm environments the answer reveals; a target that answered before
\* answers the same again
IsUsableCalls(d) ==
    IF d = "docker-info"
    THEN {[out |-> DockerInfoIsUsable(executor_type), env |-> pip_env, nenv |-> npm_env]}
    ELSE IF d = "pip"
    THEN {[out |-> PipIsUsable(e), env |-> e, nenv |-> npm_env] :
             e \in IF usable_of[d] # Unasked THEN {pip_env}
                   ELSE (IF active_count < MaxActive /\ CommandsRun(executor_type)
                         THEN ActivePipEnvs ELSE {})
                        \cup {InactivePipEnv}}
    ELSE IF d = "npm"
    THEN {[out |-> NpmIsUsable(e), env |-> pip_env, nenv |-> e] :
             e \in IF usable_of[d] # Unasked THEN {npm_env}
                   ELSE (IF active_count < MaxActive /\ CommandsRun(executor_type)
                         THEN ActiveNpmEnvs ELSE {})
                        \cup {InactiveNpmEnv}}
    ELSE IF usable_of[d] # Unasked
    THEN {[out |-> usable_of[d], env |-> pip_env, nenv |-> npm_env]}
    ELSE {[out |-> o, env |-> pip_env, nenv |-> npm_env] :
             o \in IF active_count < MaxActive THEN IsUsableAnswers ELSE {Value(FALSE)}}

\* what detector d answers to has_system_scope on this target
HasSystemScopeCalls(d) ==
    IF d = "docker-info"
    THEN {Call(DockerInfoHasSystemScope, pip_cache, {})}
    ELSE IF d = "pip"
    THEN {PipHasSystemScope(pip_cache, pip_env, executor_type, working_dir, venv_path)}
    ELSE IF d = "npm"
    THEN {Call(NpmHasSystemScope(npm_env, working_dir), pip_cache, {})}
    ELSE IF scope_of[d] # Unasked
    THEN {Call(scope_of[d], pip_cache, {})}
    ELSE {Call(o, pip_cache, {}) : o \in HasSystemScopeAnswers}

\* what detector d answers to get_dependencies on this target; a container
\* that reported its identity before reports the same again
GetDependenciesCalls(d) ==
    IF d = "docker-info"
    THEN {Call(o, pip_cache, {}) :
             o \in IF deps_of[d] # Unasked THEN {deps_of[d]}
                   ELSE DockerInfoGetDependencies(executor_type)}
    ELSE IF d = "pip"
    THEN {PipGetDependencies(pip_cache, pip_env, executor_type, working_dir, venv_path)}
    ELSE IF d = "npm"
    THEN {Call(NpmGetDependencies(npm_env, working_dir), pip_cache, {})}
    ELSE {Call(o, pip_cache, {}) : o \in GetDependenciesAnswers(d)}

\* orchestrator.py:62: detector.is_usable
OIsUsable ==
    /\ opc = "is_usable"
    /\ LET d == detectors_to_run[di] IN
       \E c \in IsUsableCalls(d) :
          /\ calls' = Append(calls, <<d, "is_usable">>)
          /\ usable_of' = [usable_of EXCEPT ![d] = c.out]
          /\ pip_env' = c.env
          /\ npm_env' = c.nenv
          /\ pip_cmds' = IF d = "pip" THEN pip_cmds \cup {"pip --version"} ELSE pip_cmds
          /\ active_count' = IF d # "docker-info" /\ usable_of[d] = Unasked
                                /\ c.out # Value(FALSE)
                             THEN active_count + 1 ELSE active_count
          /\ IF c.out.kind = "exception"
             THEN OnException(c.out)
             ELSE IF c.out.value
             THEN /\ opc' = IF skip_system_scope THEN "skip_check" ELSE "get_dependencies"
                  /\ di' = di
                  /\ oraised' = oraised
             ELSE Continue
    /\ UNCHANGED <<executor_type, working_dir, skip_system_scope, only_container_info,
                   detectors_to_run, scope_of, deps_of, project_packages,
                   project_metadata, system_packages, system_metadata, result,
                   venv_path, pip_cache, bvars, xvars>>

\* a skip flag that is ignored
ShouldSkipNever(skip, system_scope) == FALSE

\* orchestrator.py:64: self.skip_system_scope and detector.has_system_scope(...)
ShouldSkip(skip, system_scope) == skip /\ system_scope

\* orchestrator.py:64-67: the scope check that decides the skip
OSkipCheck ==
    /\ opc = "skip_check"
    /\ LET d == detectors_to_run[di] IN
       \E c \in HasSystemScopeCalls(d) :
          /\ calls' = Append(calls, <<d, "has_system_scope">>)
          /\ scope_of' = [scope_of EXCEPT ![d] = c.out]
          /\ pip_cache' = c.cache
          /\ pip_cmds' = pip_cmds \cup c.cmds
          /\ IF c.out.kind = "exception"
             THEN OnException(c.out)
             ELSE IF ShouldSkip(skip_system_scope, c.out.value)
             THEN Continue
             ELSE /\ opc' = "get_dependencies"
                  /\ di' = di
                  /\ oraised' = oraised
    /\ UNCHANGED <<executor_type, working_dir, skip_system_scope, only_container_info,
                   detectors_to_run, usable_of, deps_of, active_count, project_packages,
                   project_metadata, system_packages, system_metadata, result,
                   venv_path, pip_env, npm_env, bvars, xvars>>

\* orchestrator.py:73-86: detector.get_dependencies; the container identity
\* goes to result["source"] at once
OGetDependencies ==
    /\ opc = "get_dependencies"
    /\ LET d == detectors_to_run[di] IN
       \E c \in GetDependenciesCalls(d) :
          /\ calls' = Append(calls, <<d, "get_dependencies">>)
          /\ deps_of' = [deps_of EXCEPT ![d] = c.out]
          /\ pip_cache' = c.cache
          /\ pip_cmds' = pip_cmds \cup c.cmds
          /\ IF c.out.kind = "exception"
             THEN OnException(c.out) /\ result' = result
             ELSE IF d = "docker-info"
             THEN /\ result' = IF c.out.value.metadata # {}
                               THEN DictSet(result, "source",
                                        c.out.value.metadata \cup {<<"type", <<"container">>>>})
                               ELSE result
                  /\ Continue
             ELSE /\ opc' = "classify"
                  /\ di' = di
                  /\ oraised' = oraised
                  /\ result' = result
    /\ UNCHANGED <<executor_type, working_dir, skip_system_scope, only_container_info,
                   detectors_to_run, usable_of, scope_of, active_count, project_packages,
                   project_metadata, system_packages, system_metadata,
                   venv_path, pip_env, npm_env, bvars, xvars>>

\* orchestrator.py:88-101: the scope check that files the packages and the
\* metadata under system or project
OClassify ==
    /\ opc = "classify"
    /\ LET d == detectors_to_run[di]
           deps == deps_of[d].value
       IN
       \E c \in HasSystemScopeCalls(d) :
          /\ calls' = Append(calls, <<d, "has_system_scope">>)
          /\ scope_of' = [scope_of EXCEPT ![d] = c.out]
          /\ pip_cache' = c.cache
          /\ pip_cmds' = pip_cmds \cup c.cmds
          /\ IF c.out.kind = "exception"
             THEN /\ OnException(c.out)
                  /\ UNCHANGED <<project_packages, project_metadata,
                                 system_packages, system_metadata>>
             ELSE /\ Continue
                  /\ IF c.out.value
                     THEN /\ system_packages' = system_packages \o deps.packages
                          /\ system_metadata' = IF deps.metadata # {}
                                                THEN DictSet(system_metadata, d, deps.metadata)
                                                ELSE system_metadata
                          /\ UNCHANGED <<project_packages, project_metadata>>
                     ELSE /\ project_packages' = project_packages \o deps.packages
                          /\ project_metadata' = IF deps.metadata # {}
                                                 THEN DictSet(project_metadata, d, deps.metadata)
                                                 ELSE project_metadata
                          /\ UNCHANGED <<system_packages, system_metadata>>
    /\ UNCHANGED <<executor_type, working_dir, skip_system_scope, only_container_info,
                   detectors_to_run, usable_of, deps_of, active_count, result,
                   venv_path, pip_env, npm_env, bvars, xvars>>

\* one section of the result
Section(packages, metadata) ==
    [k \in {"packages", "package-management"} |->
        IF k = "packages" THEN packages ELSE metadata]

\* a project section that is always written
WithProjectAlways(res) ==
    DictSet(res, "project", Section(project_packages, project_metadata))

\* orchestrator.py:112-114
WithProject(res) ==
    IF project_packages # <<>> \/ project_metadata # EmptyDict
    THEN DictSet(res, "project", Section(project_packages, project_metadata))
    ELSE res

\* orchestrator.py:116-118
WithSystem(res) ==
    IF system_packages # <<>> \/ system_metadata # EmptyDict
    THEN DictSet(res, "system", Section(system_packages, system_metadata))
    ELSE res

\* orchestrator.py:111-120: the result is assembled and returned
OAggregate ==
    /\ opc = "aggregate"
    /\ result' = WithSystem(WithProject(result))
    /\ opc' = "returned"
    /\ UNCHANGED <<executor_type, working_dir, skip_system_scope, only_container_info,
                   detectors_to_run, di, calls, usable_of, scope_of, deps_of,
                   active_count, project_packages, project_metadata, system_packages,
                   system_metadata, oraised, venv_path, pip_env, pip_cache, pip_cmds, npm_env,
                   bvars, xvars>>

NextOrch ==
    \/ OValidate
    \/ OIsUsable
    \/ OSkipCheck
    \/ OGetDependencies
    \/ OClassify
    \/ OAggregate

SpecOrch == InitOrch /\ [][NextOrch]_vars

\* ------------------------------------------------------------------------
\* Orchestrator: properties
\* ------------------------------------------------------------------------
WorkingDirError == Raise("ValueError", "Working directory does not exist")

DetectorOps == {"is_usable", "has_system_scope", "get_dependencies"}
DetectorCalls == {k \in 1..Len(calls) : calls[k][2] \in DetectorOps}

\* the packages and the package-management entries of a section of the
\* returned dictionary (empty when the section is absent)
ResultPackages(section) ==
    IF section \in DOMAIN result THEN result[section]["packages"] ELSE <<>>
ResultManagers(section) ==
    IF section \in DOMAIN result THEN DOMAIN result[section]["package-management"] ELSE {}

\* everything detector d has in the locals and in the returned dictionary
PackagesOf(d) ==
    {p \in Range(project_packages) \cup Range(system_packages)
           \cup Range(ResultPackages("project")) \cup Range(ResultPackages("system")) :
        p.type = d}
HasEntry(d) ==
    d \in (DOMAIN project_metadata) \cup (DOMAIN system_metadata)
          \cup ResultManagers("project") \cup ResultManagers("system")

\* an operation of detector d ended in an exception
Failed(d) ==
    \/ usable_of[d].kind = "exception"
    \/ scope_of[d].kind = "exception"
    \/ deps_of[d].kind = "exception"

\* detector d was extracted and classified
Contributes(d) ==
    /\ d # "docker-info"
    /\ deps_of[d].kind = "value"
    /\ scope_of[d].kind = "value"

\* what the detectors up to position k hand to the given scope, in
\* registration order, each from its own answers alone
RECURSIVE ExpectedPackages(_, _)
ExpectedPackages(k, system) ==
    IF k = 0 THEN <<>>
    ELSE LET d == Detectors[k] IN
         ExpectedPackages(k - 1, system)
         \o (IF Contributes(d) /\ scope_of[d].value = system
             THEN deps_of[d].value.packages ELSE <<>>)

ExpectedManagers(system) ==
    {d \in Range(Detectors) :
        Contributes(d) /\ scope_of[d].value = system /\ deps_of[d].value.metadata # {}}

\* C6: a working directory the executor does not find makes
\* resolve_dependencies raise ValueError('Working directory does not exist')
\* before any detector operation; with working_dir=None the path check is
\* not made and that error is never raised.
C6_WorkingDirCheckedFirst ==
    /\ (opc # "validate" /\ working_dir # NoneStr
        /\ ~PathExists([type |-> executor_type], working_dir)) =>
            /\ opc = "raised"
            /\ oraised = WorkingDirError
            /\ DetectorCalls = {}
    /\ oraised = WorkingDirError => DetectorCalls = {}
    /\ working_dir = NoneStr =>
            /\ <<"executor", "path_exists">> \notin Range(calls)
            /\ oraised # WorkingDirError

\* the run was refused for a missing working directory
C6_Witness ==
    /\ opc = "raised"
    /\ working_dir = "/missing"
    /\ oraised = WorkingDirError
    /\ calls = << <<"executor", "path_exists">> >>

C8_SystemScopeSkipped ==
    skip_system_scope =>
        \A d \in Range(Detectors) :
            scope_of[d] = Value(TRUE) =>
                /\ usable_of[d] = Value(TRUE)
                /\ PackagesOf(d) = {}
                /\ ~HasEntry(d)
                /\ <<d, "get_dependencies">> \notin Range(calls)
                /\ deps_of[d] = Unasked

\* a run that skipped a usable system-scope detector and still reported a
\* project-scope one
C8_Witness ==
    /\ opc = "returned"
    /\ skip_system_scope
    /\ \E d \in Range(Detectors) : usable_of[d] = Value(TRUE) /\ scope_of[d] = Value(TRUE)
    /\ ResultPackages("project") # <<>>

\* some detector produced data for the given scope in this run
ProducedData(system) ==
    \E d \in Range(Detectors) :
        /\ Contributes(d)
        /\ scope_of[d].value = system
        /\ (deps_of[d].value.packages # <<>> \/ deps_of[d].value.metadata # {})

\* C9: the returned dictionary has the 'project' key exactly when a detector
\* produced project-scope data (packages or location metadata) in this run,
\* likewise 'system'; a section that is present has the 'packages' list and
\* the 'package-management' map, holding that data.
C9_SectionIffData ==
    opc = "returned" =>
        /\ ("project" \in DOMAIN result) <=> ProducedData(FALSE)
        /\ ("system" \in DOMAIN result) <=> ProducedData(TRUE)
        /\ \A section \in (DOMAIN result) \ {"source"} :
              DOMAIN result[section] = {"packages", "package-management"}
        /\ ResultPackages("project") = ExpectedPackages(Len(Detectors), FALSE)
        /\ ResultPackages("system") = ExpectedPackages(Len(Detectors), TRUE)
        /\ ResultManagers("project") = ExpectedManagers(FALSE)
        /\ ResultManagers("system") = ExpectedManagers(TRUE)

\* a run with a project section and no system section although a
\* system-scope detector was extracted (it had nothing to report)
C9_Witness ==
    /\ opc = "returned"
    /\ "project" \in DOMAIN result
    /\ "system" \notin DOMAIN result
    /\ \E d \in Range(Detectors) : Contributes(d) /\ scope_of[d].value = TRUE

\* C10: with a working directory, pip usable and no virtual environment
\* found, the package listing is not run and the returned dictionary has
\* project.package-management.pip = {location: <dir>} and no pip package.
C10_NoVenvReportedUnderProject ==
    (/\ opc = "returned"
     /\ working_dir # NoneStr
     /\ usable_of["pip"] = Value(TRUE)
     /\ pip_cache.searched
     /\ pip_cache.path = NoPath) =>
        /\ "pip list" \notin pip_cmds
        /\ PackagesOf("pip") = {}
        /\ "pip" \in ResultManagers("project")
        /\ result["project"]["package-management"]["pip"] = {<<"location", <<working_dir>>>>}
        /\ "pip" \notin ResultManagers("system")

\* the keys of a metadata dictionary
MetadataKeys(metadata) == {e[1] : e \in metadata}

\* the package-management entry of detector d in a section of the result
ResultEntry(section, d) == result[section]["package-management"][d]

\* C11: the metadata pip and npm return carries 'hash' exactly when it carries
\* a (non-system) location and at least one package was found; for a system
\* location the metadata is empty; no pip or npm entry filed under
\* system.package-management carries a hash.
C11_HashOnlyForProjectPackages ==
    \A d \in {"pip", "npm"} :
        /\ deps_of[d].kind = "value" =>
              LET dep == deps_of[d].value
                  keys == MetadataKeys(dep.metadata)
              IN  /\ ("hash" \in keys) <=> ("location" \in keys /\ dep.packages # <<>>)
                  /\ keys \subseteq {"location", "hash"}
                  /\ <<"location", SystemLocation>> \notin dep.metadata
        /\ (d = "npm" /\ deps_of[d].kind = "value"
            /\ NpmGetNpmLocation(npm_env, working_dir) = Value(SystemLocation))
              => deps_of[d].value.metadata = {}
        /\ (d = "pip" /\ deps_of[d].kind = "value" /\ "pip list" \in pip_cmds
            /\ ~pip_env.show_ok)
              => deps_of[d].value.metadata = {}
        /\ d \in DOMAIN system_metadata => "hash" \notin MetadataKeys(system_metadata[d])
        /\ d \in ResultManagers("system") =>
              "hash" \notin MetadataKeys(ResultEntry("system", d))

\* a run that reported npm packages with a hashed project location and pip
\* packages of a system location
C11_Witness ==
    /\ opc = "returned"
    /\ "npm" \in ResultManagers("project")
    /\ "hash" \in MetadataKeys(ResultEntry("project", "npm"))
    /\ scope_of["pip"] = Value(TRUE)
    /\ deps_of["pip"].kind = "value"
    /\ deps_of["pip"].value.packages # <<>>
    /\ deps_of["pip"].value.metadata = {}

\* C12: the docker-info detector's output appears only as the top-level
\* 'source' entry tagged type='container'; it adds no package and no
\* package-management entry; with only_container_info=True no other detector
\* is invoked and 'source' is the only key the result can have.
C12_ContainerInfoOnlyAsSource ==
    /\ PackagesOf("docker-info") = {}
    /\ ~HasEntry("docker-info")
    /\ "source" \in DOMAIN result =>
          /\ deps_of["docker-info"].kind = "value"
          /\ deps_of["docker-info"].value.metadata # {}
          /\ result["source"] =
                deps_of["docker-info"].value.metadata \cup {<<"type", <<"container">>>>}
    /\ only_container_info =>
          /\ DOMAIN result \subseteq {"source"}
          /\ \A k \in DetectorCalls : calls[k][1] = "docker-info"

\* a run restricted to the container identity that returned it
C12_Witness ==
    /\ opc = "returned"
    /\ only_container_info
    /\ DOMAIN result = {"source"}
    /\ <<"type", <<"container">>>> \in result["source"]
    /\ <<"image", <<"nginx">>>> \in result["source"]

\* ------------------------------------------------------------------------
\* The orchestrator of src/core: one resolve_dependencies call, with the
\* compose-stack branch
\* ------------------------------------------------------------------------
\* src/core/orchestrator.py:26-32
CoreDetectors == <<"docker-compose", "dpkg", "apk", "pip", "npm">>

\* a selection that ignores the class of the executor
CoreDetectorsToRunAll(ex) == CoreDetectors

\* src/core/orchestrator.py:39-43
CoreDetectorsToRun(ex) ==
    IF ex = "DockerComposeExecutor"
    THEN SelectSeq(CoreDetectors, LAMBDA d : d = "docker-compose")
    ELSE SelectSeq(CoreDetectors, LAMBDA d : d # "docker-compose")

\* DockerComposeDetector.is_usable: a constructed DockerComposeExecutor has
\* at least one container (docker_compose_executor.py:22-23)
DockerComposeIsUsable(ex) == Value(ex = "DockerComposeExecutor")

\* DockerComposeDetector.has_system_scope
DockerComposeHasSystemScope == Value(FALSE)

\* what get_dependencies hands back in this version: a dictionary with the
\* scope and the dependencies found
CoreDependencies(scope, dependencies) == [scope |-> scope, dependencies |-> dependencies]

\* DockerComposeDetector.get_dependencies: the images of the stack, fewer
\* when a container fails to report, or the daemon's APIError out of
\* container.reload()
DockerComposeGetDependencies(ex) ==
    IF ex # "DockerComposeExecutor"
    THEN {Value(CoreDependencies("compose", {}))}
    ELSE {Value(CoreDependencies("compose", {"web"})),
          Value(CoreDependencies("compose", {})),
          Raise("APIError", "container.reload() failed")}

\* get_dependencies of a package detector, through the interface
CoreGetDependenciesAnswers ==
    {Value(CoreDependencies(sc, deps)) : sc \in {"project", "system"}, deps \in {{}, {"a"}}}
    \cup DetectorExceptions

InitCore ==
    /\ opc = "select"
    /\ executor_type \in {"HostExecutor", "DockerExecutor", "DockerComposeExecutor"}
    /\ working_dir \in {NoneStr, "/proj"}
    /\ skip_system_scope \in BOOLEAN
    /\ debug \in BOOLEAN
    /\ only_container_info = FALSE
    /\ venv_path = NoPath
    /\ detectors_to_run = <<>>
    /\ di = 0
    /\ calls = <<>>
    /\ usable_of = [d \in Range(CoreDetectors) |-> Unasked]
    /\ scope_of = [d \in Range(CoreDetectors) |-> Unasked]
    /\ deps_of = [d \in Range(CoreDetectors) |-> Unasked]
    /\ active_count = 0
    /\ project_packages = <<>>
    /\ project_metadata = EmptyDict
    /\ system_packages = <<>>
    /\ system_metadata = EmptyDict
    /\ result = EmptyDict
    /\ oraised = Unasked
    /\ pip_env = InactivePipEnv
    /\ npm_env = InactiveNpmEnv
    /\ pip_cache = NoCache
    /\ pip_cmds = {}
    /\ InitBatchIdle
    /\ InitReuseIdle
    /\ InitUnitIdle

\* what this call leaves alone whatever it does
CoreUntouched ==
    UNCHANGED <<executor_type, working_dir, skip_system_scope, only_container_info,
                project_packages, project_metadata, system_packages, system_metadata,
                venv_path, pip_env, pip_cache, pip_cmds, npm_env, bvars, xvars>>

\* src/core/orchestrator.py:36-43
CoreSelect ==
    /\ opc = "select"
    /\ detectors_to_run' = CoreDetectorsToRun(executor_type)
    /\ di' = 1
    /\ opc' = "is_usable"
    /\ UNCHANGED <<calls, usable_of, scope_of, deps_of, active_count, result, oraised>>
    /\ CoreUntouched

\* the loop moves on to the next detector, or returns result (line 80)
CoreContinue ==
    /\ di' = di + 1
    /\ opc' = IF di < Len(detectors_to_run) THEN "is_usable" ELSE "returned"
    /\ oraised' = oraised

\* src/core/orchestrator.py:75-78
CoreOnException(exc) ==
    IF exc.type \in CaughtExceptions
    THEN CoreContinue
    ELSE /\ opc' = "raised"
         /\ di' = di
         /\ oraised' = exc

\* src/core/orchestrator.py:52
CoreIsUsable ==
    /\ opc = "is_usable"
    /\ LET d == detectors_to_run[di] IN
       \E out \in (IF d = "docker-compose" THEN {DockerComposeIsUsable(executor_type)}
                   ELSE IF active_count < MaxActive THEN IsUsableAnswers
                   ELSE {Value(FALSE)}) :
          /\ calls' = Append(calls, <<d, "is_usable">>)
          /\ usable_of' = [usable_of EXCEPT ![d] = out]
          /\ active_count' = IF d # "docker-compose" /\ out # Value(FALSE)
                             THEN active_count + 1 ELSE active_count
          /\ IF out.kind = "exception"
             THEN CoreOnException(out)
             ELSE IF out.value
             THEN /\ opc' = IF skip_system_scope THEN "skip_check" ELSE "get_dependencies"
                  /\ di' = di
                  /\ oraised' = oraised
             ELSE CoreContinue
    /\ UNCHANGED <<detectors_to_run, scope_of, deps_of, result>>
    /\ CoreUntouched

\* src/core/orchestrator.py:54-57
CoreSkipCheck ==
    /\ opc = "skip_check"
    /\ LET d == detectors_to_run[di] IN
       \E out \in (IF d = "docker-compose" THEN {DockerComposeHasSystemScope}
                   ELSE HasSystemScopeAnswers) :
          /\ calls' = Append(calls, <<d, "has_system_scope">>)
          /\ scope_of' = [scope_of EXCEPT ![d] = out]
          /\ IF out.kind = "exception"
             THEN CoreOnException(out)
             ELSE IF ShouldSkip(skip_system_scope, out.value)
             THEN CoreContinue
             ELSE /\ opc' = "get_dependencies"
                  /\ di' = di
                  /\ oraised' = oraised
    /\ UNCHANGED <<detectors_to_run, usable_of, deps_of, active_count, result>>
    /\ CoreUntouched

\* src/core/orchestrator.py:62-66
CoreGetDependencies ==
    /\ opc = "get_dependencies"
    /\ LET d == detectors_to_run[di] IN
       \E out \in (IF d = "docker-compose" THEN DockerComposeGetDependencies(executor_type)
                   ELSE CoreGetDependenciesAnswers) :
          /\ calls' = Append(calls, <<d, "get_dependencies">>)
          /\ deps_of' = [deps_of EXCEPT ![d] = out]
          /\ IF out.kind = "exception"
             THEN CoreOnException(out) /\ result' = result
             ELSE /\ result' = IF out.value.dependencies # {} \/ debug
                               THEN DictSet(result, d, out.value)
                               ELSE result
                  /\ CoreContinue
    /\ UNCHANGED <<detectors_to_run, usable_of, scope_of, active_count>>
    /\ CoreUntouched

NextCore ==
    \/ CoreSelect
    \/ CoreIsUsable
    \/ CoreSkipCheck
    \/ CoreGetDependencies

SpecCore == InitCore /\ [][NextCore]_vars

\* C13: for a compose-stack executor only the docker-compose detector's
\* operations are invoked; for every other executor the docker-compose
\* detector is never invoked and every remaining detector is considered.
C13_ComposeRunsOnlyStackDetector ==
    /\ executor_type = "DockerComposeExecutor" =>
          \A k \in 1..Len(calls) : calls[k][1] = "docker-compose"
    /\ executor_type # "DockerComposeExecutor" =>
          /\ \A k \in 1..Len(calls) : calls[k][1] # "docker-compose"
          /\ opc = "returned" =>
                \A d \in Range(CoreDetectors) \ {"docker-compose"} :
                    <<d, "is_usable">> \in Range(calls)

\* a compose-stack run that returned the images of the stack
C13_Witness ==
    /\ opc = "returned"
    /\ executor_type = "DockerComposeExecutor"
    /\ calls = << <<"docker-compose", "is_usable">>, <<"docker-compose", "get_dependencies">> >>
    /\ "docker-compose" \in DOMAIN result

\* ------------------------------------------------------------------------
\* Repeated resolve_dependencies calls: on the Orchestrator already used
\* (its PipDetector keeps _cached_venv_path) and on a fresh one
\* ------------------------------------------------------------------------
WorkingDirs == {NoneStr, "/proj", "/missing"}
MarkerSets == {{}, {<<"/proj", "venv">>}, {<<"/opt", "app">>}}

\* a target on which only docker-info and pip can respond
InitReuse ==
    /\ opc = "validate"
    /\ executor_type \in {"HostExecutor", "DockerExecutor"}
    /\ working_dir \in WorkingDirs
    /\ skip_system_scope \in BOOLEAN
    /\ only_container_info = FALSE
    /\ venv_path = NoPath
    /\ detectors_to_run = <<>>
    /\ di = 0
    /\ calls = <<>>
    /\ usable_of = [d \in Range(Detectors) |->
                      IF d \in {"docker-info", "pip"} THEN Unasked ELSE Value(FALSE)]
    /\ scope_of = [d \in Range(Detectors) |-> Unasked]
    /\ deps_of = [d \in Range(Detectors) |-> Unasked]
    /\ active_count = 0
    /\ project_packages = <<>>
    /\ project_metadata = EmptyDict
    /\ system_packages = <<>>
    /\ system_metadata = EmptyDict
    /\ result = EmptyDict
    /\ oraised = Unasked
    /\ pip_env = InactivePipEnv
    /\ npm_env = InactiveNpmEnv
    /\ pip_cache = NoCache
    /\ pip_cmds = {}
    /\ history = <<>>
    /\ InitCoreIdle
    /\ InitUnitIdle
    /\ InitBatchIdle

\* how the call that just ended went
Outcome == [opc |-> opc, result |-> result, oraised |-> oraised]
CallRecord == [working_dir |-> working_dir, pip_env |-> pip_env, outcome |-> Outcome]

\* orchestrator.py:44-48: every call starts with empty locals
NewCall ==
    /\ opc' = "validate"
    /\ detectors_to_run' = <<>>
    /\ di' = 0
    /\ calls' = <<>>
    /\ project_packages' = <<>>
    /\ project_metadata' = EmptyDict
    /\ system_packages' = <<>>
    /\ system_metadata' = EmptyDict
    /\ result' = EmptyDict
    /\ oraised' = Unasked
    /\ pip_cmds' = {}
    /\ history' = Append(history, CallRecord)
    /\ UNCHANGED <<executor_type, skip_system_scope, only_container_info, venv_path,
                   usable_of, scope_of, deps_of, active_count, npm_env, debug, uvars, bvars>>

\* resolve_dependencies is called again on the same Orchestrator, for the
\* same or another working directory, after a venv appeared or vanished on
\* the target or not, find walking the files in any order
OCallAgain ==
    /\ opc \in {"returned", "raised"}
    /\ Len(history) = 0
    /\ \E wd \in WorkingDirs, m \in MarkerSets, o \in TraversalOrders :
          /\ wd = working_dir \/ m = pip_env.markers
          /\ ~pip_env.version_ok => (m = pip_env.markers /\ o = pip_env.order)
          /\ pip_env.list # "one" => o = pip_env.order
          /\ working_dir' = wd
          /\ pip_env' = [pip_env EXCEPT !.markers = m, !.order = o,
                                        !.venv_pip = IF m = {} THEN FALSE ELSE @]
    /\ pip_cache' = pip_cache
    /\ NewCall

\* the same call, on the same target, on a freshly constructed Orchestrator
\* (pip_detector.py:17-21)
OCallFresh ==
    /\ opc \in {"returned", "raised"}
    /\ Len(history) = 1
    /\ pip_cache' = NoCache
    /\ UNCHANGED <<working_dir, pip_env>>
    /\ NewCall

NextReuse ==
    \/ NextOrch
    \/ OCallAgain
    \/ OCallFresh

SpecReuse == InitReuse /\ [][NextReuse]_vars

\* the target answers every command and path check as it did in call h
\* (the order of find's walk aside) and the arguments are those of call h
Unchanged(h) ==
    /\ h.working_dir = working_dir
    /\ [h.pip_env EXCEPT !.order = <<1, 2, 3>>] = [pip_env EXCEPT !.order = <<1, 2, 3>>]

\* C14: resolution run again against an unchanged target, on the same
\* Orchestrator or on a fresh one, ends as the first run did: same package
\* lists, same package-management locations, same location hashes.
C14_SecondRunIdentical ==
    (/\ opc \in {"returned", "raised"}
     /\ Len(history) >= 1
     /\ Unchanged(history[1])) => Outcome = history[1].outcome

\* a second run that walked the files in another order and reported the
\* same hashed pip location
C14_Witness ==
    /\ opc = "returned"
    /\ Len(history) = 1
    /\ Unchanged(history[1])
    /\ history[1].pip_env.order # pip_env.order
    /\ "pip" \in ResultManagers("project")
    /\ "hash" \in MetadataKeys(ResultEntry("project", "pip"))
    /\ pip_cache.searched

\* C15: a call on an Orchestrator that was already used returns what the
\* same call returns on a freshly constructed Orchestrator.
C15_UsedEqualsFresh ==
    (/\ opc \in {"returned", "raised"}
     /\ Len(history) = 2) => Outcome = history[2].outcome

\* ------------------------------------------------------------------------
\* Single operations of detectors and executors, applied to drawn inputs
\* ------------------------------------------------------------------------
\* the directories a pyvenv.cfg may sit in
VenvUniverse ==
    { <<"/opt", "app">>, <<"/hint">>, <<"/proj">>, <<"/proj", "venv">>,
      <<"/proj", ".venv">>, <<"~/.virtualenvs", "/proj">>, <<".">>, <<".", "env">> }

\* the targets venv discovery is applied to
FindVenvEnvs ==
    { [InactivePipEnv EXCEPT !.version_ok = TRUE, !.markers = m,
                             !.virtual_env = v, !.resolve_ok = r] :
        m \in SUBSET VenvUniverse, v \in {NoPath, <<"/hint">>}, r \in BOOLEAN }

FindVenvCalls ==
    { [fn |-> "_find_venv_path", env |-> e, ex |-> x, wd |-> w, explicit |-> p] :
        e \in FindVenvEnvs, x \in {"HostExecutor", "DockerExecutor"},
        w \in {NoneStr, "/proj"}, p \in {NoPath, <<"/opt", "app">>} }

\* ---- executors: execute_command ------------------------------------------
MaxCommandLen == 3    \* longest command line, in characters
MaxLaterCalls == 2    \* most _find_venv_path calls after the first on one detector

\* a command line is a sequence of characters
Backtick == "backtick"    \* the character `
Quote == "quote"          \* the character '
CommandChars == {"a", "-", " ", Quote, "&", "|", ">", "<", ";", Backtick, "$", "("}

\* op in command
Contains(command, op) ==
    \E i \in 1..(Len(command) - Len(op) + 1) :
        SubSeq(command, i, i + Len(op) - 1) = op

\* an operator list that lets ";" through
ShellOperatorsFew ==
    { <<"&", "&">>, <<"|", "|">>, <<"|">>, <<">">>, <<"<">>, <<Backtick>>,
      <<"$", "(">>, <<"$">> }

\* the shell operations _parse_simple_command rejects
ShellOperators ==
    { <<"&", "&">>, <<"|", "|">>, <<"|">>, <<">">>, <<"<">>, <<";">>, <<Backtick>>,
      <<"$", "(">>, <<"$">> }

\* shlex.split(command): words separated by blanks, single quotes group,
\* ValueError for a quote that is never closed
RECURSIVE ShlexScan(_, _, _, _, _)
ShlexScan(rest, token, in_token, quoted, parts) ==
    IF rest = <<>>
    THEN IF quoted THEN Raise("ValueError", "No closing quotation")
         ELSE IF in_token THEN Value(Append(parts, token))
         ELSE Value(parts)
    ELSE IF quoted
    THEN IF Head(rest) = Quote
         THEN ShlexScan(Tail(rest), token, TRUE, FALSE, parts)
         ELSE ShlexScan(Tail(rest), Append(token, Head(rest)), TRUE, TRUE, parts)
    ELSE IF Head(rest) = Quote
    THEN ShlexScan(Tail(rest), token, TRUE, TRUE, parts)
    ELSE IF Head(rest) = " "
    THEN ShlexScan(Tail(rest), <<>>, FALSE, FALSE,
                   IF in_token THEN Append(parts, token) ELSE parts)
    ELSE ShlexScan(Tail(rest), Append(token, Head(rest)), TRUE, FALSE, parts)

ShlexSplit(command) == ShlexScan(command, <<>>, FALSE, FALSE, <<>>)

\* parts[0].startswith("-")
StartsWithDash(token) == Len(token) > 0 /\ token[1] = "-"

\* _parse_simple_command returning None
NoParts == <<>>

\* DockerExecutor._parse_simple_command
ParseSimpleCommand(command) ==
    LET Simple(split) ==
            IF split.kind = "value" /\ split.value # <<>>
               /\ ~StartsWithDash(split.value[1])
            THEN split.value
            ELSE NoParts
    IN  IF \E op \in ShellOperators : Contains(command, op)
        THEN NoParts
        ELSE Simple(ShlexSplit(command))

\* what container.exec_run can do: return a result or raise
ShNotFound == "OCI runtime exec failed: exec: sh: executable file not found in $PATH"
ApiMessages == {ShNotFound, "container is paused"}
Undecodable == "bytes that are not utf-8"
ExecResults ==
    { [kind |-> "result", exit_code |-> 0, output |-> "out"],
      [kind |-> "result", exit_code |-> 2, output |-> ""],
      [kind |-> "result", exit_code |-> 0, output |-> Undecodable] }
ExecRunOutcomes ==
    ExecResults \cup {Raise("APIError", m) : m \in ApiMessages}
                \cup {Raise("OSError", "connection aborted")}

\* "executable file not found" in str(e).lower() and "sh" in str(e).lower()
IsShNotFound(msg) == msg = ShNotFound

\* result.output.decode("utf-8") if result.output else "", then the triple
ExecTriple(exec_result) ==
    IF exec_result.output = Undecodable
    THEN Raise("ValueError", "UnicodeDecodeError")
    ELSE Value(<<exec_result.output, "", exec_result.exit_code>>)

Sh == <<"s", "h">>
DashC == <<"-", "c">>

\* DockerExecutor._execute_command_direct: what it returns or raises, and
\* the commands it handed to the container
DockerExecuteCommandDirect(command, direct) ==
    LET Run(cmd_parts) ==
            IF cmd_parts = NoParts
            THEN [out |-> Value(<<"", "Command too complex for direct execution (no shell available)", 1>>),
                  execs |-> <<>>]
            ELSE [out |-> IF direct.kind = "result" THEN ExecTriple(direct)
                          ELSE IF direct.type = "APIError"
                          THEN Value(<<"", "Direct execution failed", 1>>)
                          ELSE direct,
                  execs |-> <<cmd_parts>>]
    IN  Run(ParseSimpleCommand(command))

\* DockerExecutor.execute_command
DockerExecuteCommand(command, shell, direct) ==
    LET Caught(out) ==
            IF out.kind = "exception" /\ out.type \in {"OSError", "ValueError"}
            THEN Value(<<"", "Command execution failed", 1>>)
            ELSE out
        Fallback(d) == [out |-> d.out, execs |-> << <<Sh, DashC, command>> >> \o d.execs]
    IN  IF shell.kind = "exception" /\ shell.type = "APIError"
        THEN IF IsShNotFound(shell.msg)
             THEN Fallback(DockerExecuteCommandDirect(command, direct))
             ELSE [out |-> Value(<<"", "Docker API error", 1>>),
                   execs |-> << <<Sh, DashC, command>> >>]
        ELSE [out |-> Caught(IF shell.kind = "result" THEN ExecTriple(shell) ELSE shell),
              execs |-> << <<Sh, DashC, command>> >>]

\* what subprocess.run(command, shell=True, text=True, timeout=30) can do
SubprocessOutcomes ==
    { [kind |-> "result", stdout |-> "out", stderr |-> "", returncode |-> 0],
      [kind |-> "result", stdout |-> "", stderr |-> "err", returncode |-> 2],
      Raise("TimeoutExpired", "timed out after 30 seconds"),
      Raise("SubprocessError", "subprocess"),
      Raise("OSError", "No such file or directory"),
      Raise("ValueError", "UnicodeDecodeError") }

\* HostExecutor.execute_command
HostExecuteCommand(command, run) ==
    IF run.kind = "result"
    THEN Value(<<run.stdout, run.stderr, run.returncode>>)
    ELSE IF run.type = "TimeoutExpired"
    THEN Value(<<"", "Command timed out after 30 seconds", 1>>)
    ELSE IF run.type \in {"SubprocessError", "OSError"}
    THEN Value(<<"", "Command execution failed", 1>>)
    ELSE run

\* the second exec_run is drawn only where the first one leads to it
DirectOutcomes(shell) ==
    IF shell.kind = "exception" /\ shell.msg = ShNotFound
    THEN ExecRunOutcomes
    ELSE {Raise("APIError", "container is paused")}

DockerExecuteCalls ==
    UNION { { [fn |-> "DockerExecutor.execute_command", command |-> c,
               shell |-> s, direct |-> d] : c \in {<<>>}, d \in DirectOutcomes(s) } :
            s \in ExecRunOutcomes }

HostExecuteCalls ==
    { [fn |-> "HostExecutor.execute_command", command |-> c, run |-> r] :
        c \in {<<"a">>, <<"a", " ", "|", " ", "a">>}, r \in SubprocessOutcomes }

\* ---- DependencyResolver._resolve_single ----------------------------------
\* the requests _resolve_single is applied to
SingleRequestKinds ==
    RequestKinds \cup
    { [environment_type |-> "docker", environment_identifier |-> "db", working_dir |-> NoneStr],
      [environment_type |-> "docker", environment_identifier |-> "db", working_dir |-> "/proj"],
      [environment_type |-> "docker", environment_identifier |-> "web", working_dir |-> "/proj"],
      [environment_type |-> "docker", environment_identifier |-> NoneStr, working_dir |-> NoneStr],
      [environment_type |-> "docker_compose", environment_identifier |-> "stack", working_dir |-> NoneStr],
      [environment_type |-> "docker_compose", environment_identifier |-> "stopped", working_dir |-> NoneStr],
      [environment_type |-> "docker_compose", environment_identifier |-> "stopped", working_dir |-> "/proj"] }

ResolveSingleCalls ==
    { [fn |-> "_resolve_single", request |-> ResolveRequest(k, 1), client |-> c] :
        k \in SingleRequestKinds, c \in {"ok", "APIError", "DockerException"} }

\* the constructors and methods _resolve_single calls, in order
ResolveSingleSteps(request, client) ==
    <<"_create_executor">>
    \o (IF CreateExecutor(request, client).kind = "value"
        THEN <<"Orchestrator", "Orchestrator.resolve_dependencies">>
        ELSE <<>>)

\* ---- NpmDetector.is_usable -----------------------------------------------
\* the files is_usable looks for
NpmProjectFiles ==
    {"package.json", "package-lock.json", "yarn.lock", "pnpm-lock.yaml", "bun.lockb"}

NpmIsUsableCalls ==
    { [fn |-> "NpmDetector.is_usable",
       env |-> [InactiveNpmEnv EXCEPT !.version_ok = v, !.files = f]] :
        v \in BOOLEAN, f \in SUBSET NpmProjectFiles }

\* ---- DockerExecutor.get_container_info -------------------------------------
\* an image tag is the sequence of its parts between slashes
ImageTags ==
    { <<"nginx:1.25">>, <<"library", "nginx:1.25">>, <<"ghcr.io", "org", "app:2">> }

\* the tag lists an image can carry: none, one, two
ImageTagLists ==
    {<<>>} \cup {<<t>> : t \in ImageTags} \cup {<<t, u>> : t \in ImageTags, u \in ImageTags}

\* DockerExecutor._extract_image_name
ExtractImageName(tags) ==
    IF tags = <<>> THEN <<"unknown">>
    ELSE IF Len(tags[1]) > 1
    THEN <<tags[1][Len(tags[1])]>>
    ELSE tags[1]

\* what container.reload() and the attribute reads can do
ReloadOutcomes == {"ok", "AttributeError", "APIError"}

\* DockerExecutor.get_container_info
GetContainerInfo(tags, reload) ==
    IF reload = "ok"
    THEN Value([name |-> "web", image |-> ExtractImageName(tags), image_hash |-> "sha256:1"])
    ELSE IF reload = "AttributeError"
    THEN Value([name |-> "web", image |-> <<"unknown">>, image_hash |-> "unknown",
                error |-> "AttributeError"])
    ELSE Raise("APIError", "container.reload() failed")

GetContainerInfoCalls ==
    { [fn |-> "DockerExecutor.get_container_info", tags |-> t, reload |-> r] :
        t \in ImageTagLists, r \in ReloadOutcomes }

UnitCalls ==
    FindVenvCalls \cup DockerExecuteCalls \cup HostExecuteCalls \cup ResolveSingleCalls
        \cup NpmIsUsableCalls \cup GetContainerInfoCalls

InitUnit ==
    /\ ucall \in UnitCalls
    /\ uret = NotRun
    /\ exec_runs = <<>>
    /\ InitOrchIdle
    /\ InitBatchIdle
    /\ InitCoreIdle
    /\ InitReuseIdle

\* PipDetector(venv_path=explicit)._find_venv_path(executor, working_dir) on
\* a fresh detector
UFindVenvPath ==
    /\ ucall.fn = "_find_venv_path"
    /\ uret = NotRun
    /\ LET Done(r) == uret' = r.out /\ pip_cache' = r.cache /\ pip_cmds' = r.cmds
       IN  Done(PipFindVenvPath(pip_cache, ucall.env, ucall.ex, ucall.wd, ucall.explicit))
    /\ UNCHANGED <<ucall, exec_runs, debug, history, bvars, opc, executor_type, working_dir,
                   skip_system_scope, only_container_info, detectors_to_run, di, calls,
                   usable_of, scope_of, deps_of, active_count, project_packages,
                   project_metadata, system_packages, system_metadata, result,
                   oraised, venv_path, pip_env, npm_env>>

\* a later _find_venv_path on the same detector instance, with any working
\* directory, on a target whose pyvenv.cfg files may have changed meanwhile
UFindVenvPathAgain ==
    /\ ucall.fn = "_find_venv_path"
    /\ uret.kind = "value"
    /\ Len(exec_runs) < MaxLaterCalls
    /\ \E wd \in {NoneStr, "/proj", "/other"}, m \in {ucall.env.markers, VenvUniverse} :
         LET Done(r) ==
                /\ exec_runs' = Append(exec_runs, [wd |-> wd, out |-> r.out, cmds |-> r.cmds])
                /\ pip_cache' = r.cache
         IN  Done(PipFindVenvPath(pip_cache, [ucall.env EXCEPT !.markers = m],
                                  ucall.ex, wd, ucall.explicit))
    /\ UNCHANGED <<ucall, uret, debug, history, bvars, opc, executor_type, working_dir,
                   skip_system_scope, only_container_info, detectors_to_run, di, calls,
                   usable_of, scope_of, deps_of, active_count, project_packages,
                   project_metadata, system_packages, system_metadata, result,
                   oraised, venv_path, pip_env, pip_cmds, npm_env>>

\* the caller writes the command line, one character at a time
UTypeCommand ==
    /\ ucall.fn = "DockerExecutor.execute_command"
    /\ uret = NotRun
    /\ Len(ucall.command) < MaxCommandLen
    /\ \E c \in CommandChars : ucall' = [ucall EXCEPT !.command = Append(@, c)]
    /\ UNCHANGED <<uret, exec_runs, debug, history, bvars, ovars>>

\* DockerExecutor.execute_command(command)
UDockerExecute ==
    /\ ucall.fn = "DockerExecutor.execute_command"
    /\ uret = NotRun
    /\ LET Done(r) == uret' = r.out /\ exec_runs' = r.execs
       IN  Done(DockerExecuteCommand(ucall.command, ucall.shell, ucall.direct))
    /\ UNCHANGED <<ucall, debug, history, bvars, ovars>>

\* HostExecutor.execute_command(command)
UHostExecute ==
    /\ ucall.fn = "HostExecutor.execute_command"
    /\ uret = NotRun
    /\ uret' = HostExecuteCommand(ucall.command, ucall.run)
    /\ exec_runs' = <<ucall.command>>
    /\ UNCHANGED <<ucall, debug, history, bvars, ovars>>

\* DependencyResolver._resolve_single(request)
UResolveSingle ==
    /\ ucall.fn = "_resolve_single"
    /\ uret = NotRun
    /\ uret' = ResolveSingle(ucall.request, ucall.client)
    /\ exec_runs' = ResolveSingleSteps(ucall.request, ucall.client)
    /\ UNCHANGED <<ucall, debug, history, bvars, ovars>>

\* NpmDetector.is_usable(executor, working_dir)
UNpmIsUsable ==
    /\ ucall.fn = "NpmDetector.is_usable"
    /\ uret = NotRun
    /\ uret' = NpmIsUsable(ucall.env)
    /\ exec_runs' = <<"npm --version">>
    /\ UNCHANGED <<ucall, debug, history, bvars, ovars>>

\* DockerExecutor.get_container_info()
UGetContainerInfo ==
    /\ ucall.fn = "DockerExecutor.get_container_info"
    /\ uret = NotRun
    /\ uret' = GetContainerInfo(ucall.tags, ucall.reload)
    /\ exec_runs' = <<"container.reload">>
    /\ UNCHANGED <<ucall, debug, history, bvars, ovars>>

NextUnit ==
    \/ UFindVenvPath
    \/ UFindVenvPathAgain
    \/ UTypeCommand
    \/ UDockerExecute
    \/ UHostExecute
    \/ UResolveSingle
    \/ UNpmIsUsable
    \/ UGetContainerInfo

SpecUnit == InitUnit /\ [][NextUnit]_vars

\* the candidates in the order the claim gives them
ClaimedCandidates(c) ==
    LET dir == IF c.wd # NoneStr THEN <<c.wd>> ELSE <<".">> IN
    (IF c.explicit # NoPath THEN <<c.explicit>> ELSE <<>>)
    \o (IF c.ex # "HostExecutor" /\ c.env.virtual_env # NoPath
        THEN <<c.env.virtual_env>> ELSE <<>>)
    \o <<dir, dir \o <<"venv">>, dir \o <<".venv">>, dir \o <<"env">>,
         dir \o <<".env">>, dir \o <<"virtualenv">>>>
    \o (IF c.wd # NoneStr
        THEN << <<"~/.virtualenvs", c.wd>>, <<"~/.local/share/virtualenvs", c.wd>>,
                <<"~/.cache/pypoetry/virtualenvs", c.wd>>, <<"~/.pyenv/versions", c.wd>> >>
        ELSE <<>>)

\* C16: venv discovery returns the first candidate, in the order explicit
\* override, environment-variable hint, working directory, its venv / .venv /
\* env / .env / virtualenv, the external per-project locations, that holds
\* pyvenv.cfg; a valid explicit override wins over a conventional
\* subdirectory; a path without pyvenv.cfg is never returned.
C16_FirstValidatedCandidate ==
    (ucall.fn = "_find_venv_path" /\ uret.kind = "value") =>
        LET cands == ClaimedCandidates(ucall)
            valid == {k \in 1..Len(cands) : cands[k] \in ucall.env.markers}
        IN  /\ valid # {} => \E k \in valid : /\ uret.value = cands[k]
                                              /\ \A l \in valid : k <= l
            /\ uret.value # NoPath => uret.value \in ucall.env.markers
            /\ (ucall.explicit # NoPath /\ ucall.explicit \in ucall.env.markers)
                  => uret.value = ucall.explicit
            /\ (valid = {} /\ ucall.ex = "HostExecutor") => uret.value = NoPath

\* discovery that returned a valid override although the working directory
\* and its venv subdirectory hold a pyvenv.cfg too
C16_Witness ==
    /\ ucall.fn = "_find_venv_path"
    /\ uret = Value(<<"/opt", "app">>)
    /\ ucall.explicit = <<"/opt", "app">>
    /\ {<<"/proj">>, <<"/proj", "venv">>, <<"/hint">>} \subseteq ucall.env.markers
    /\ ucall.wd = "/proj"
    /\ ucall.ex = "DockerExecutor"
    /\ ucall.env.virtual_env = <<"/hint">>

\* the operators the claim lists
ClaimedOperators ==
    { <<"&", "&">>, <<"|", "|">>, <<"|">>, <<">">>, <<"<">>, <<";">>, <<Backtick>>,
      <<"$", "(">>, <<"$">> }

\* the runtime reported the shell binary missing
ShellMissing ==
    /\ ucall.shell.kind = "exception"
    /\ ucall.shell.type = "APIError"
    /\ ucall.shell.msg = ShNotFound

C18_ExecuteCommandNeverRaises ==
    (ucall.fn \in {"DockerExecutor.execute_command", "HostExecutor.execute_command"}
        /\ uret # NotRun) =>
        LET ran == IF ucall.fn = "HostExecutor.execute_command"
                   THEN ucall.run
                   ELSE IF Len(exec_runs) = 2 THEN ucall.direct
                   ELSE IF ShellMissing THEN Raise("rejected", "") ELSE ucall.shell
        IN  /\ uret.kind = "value"
            /\ ran.kind = "exception" =>
                  uret.value[1] = "" /\ uret.value[2] # "" /\ uret.value[3] = 1
            /\ ran.kind = "result" =>
                  uret.value[3] = (IF ucall.fn = "HostExecutor.execute_command"
                                   THEN ran.returncode ELSE ran.exit_code)

\* the request names a container that is missing or not running, or a
\* compose stack without a running container
DeadTarget(request) ==
    \/ /\ request.environment_type = "docker"
       /\ request.environment_identifier # NoneStr
       /\ ContainerStatus(request.environment_identifier) # "running"
    \/ /\ request.environment_type = "docker_compose"
       /\ request.environment_identifier # "stack"
       /\ request.environment_identifier # NoneStr

\* C19: constructing a DockerExecutor for a container that is missing or not
\* running, or a DockerComposeExecutor for a stack without a running
\* container, fails at construction; _resolve_single constructs the executor
\* before the Orchestrator, so for such a request neither the Orchestrator is
\* built nor resolve_dependencies called: no detector operation runs.
C19_DeadTargetFailsAtConstruction ==
    (ucall.fn = "_resolve_single" /\ uret # NotRun /\ DeadTarget(ucall.request)) =>
        /\ CreateExecutor(ucall.request, ucall.client).kind = "exception"
        /\ exec_runs = <<"_create_executor">>
        /\ uret.kind = "value" => ~uret.value.success

\* a request for the exited container "db", answered with a failed result
\* after the executor constructor alone ran
C19_Witness ==
    /\ ucall.fn = "_resolve_single"
    /\ ucall.request.environment_identifier = "db"
    /\ ucall.client = "ok"
    /\ uret.kind = "value"
    /\ ~uret.value.success
    /\ exec_runs = <<"_create_executor">>

\* the lockfiles of the competing package managers
CompetingLockfiles == {"yarn.lock", "pnpm-lock.yaml", "bun.lockb"}

\* C20: NpmDetector.is_usable returns True only if npm responds, the search
\* directory holds package.json or package-lock.json, and it holds none of
\* yarn.lock, pnpm-lock.yaml, bun.lockb; with a competing lockfile present it
\* returns False.
C20_NpmUsableOnlyWithoutCompetitor ==
    (ucall.fn = "NpmDetector.is_usable" /\ uret # NotRun) =>
        /\ uret.value =>
              /\ ucall.env.version_ok
              /\ ucall.env.files \cap {"package.json", "package-lock.json"} # {}
              /\ ucall.env.files \cap CompetingLockfiles = {}
        /\ ucall.env.files \cap CompetingLockfiles # {} => ~uret.value

\* C21: for each detector, has_system_scope answers True exactly when
\* get_dependencies on the same target returned metadata without a
\* location, so the section the orchestrator files a detector under agrees
\* with the scope of the metadata it returned. Stated for the two detectors
\* whose code is modelled command by command, pip and npm.
C21_ScopeAgreesWithMetadata ==
    \A d \in {"pip", "npm"} :
        (deps_of[d].kind = "value" /\ scope_of[d].kind = "value") =>
            (scope_of[d].value <=> "location" \notin MetadataKeys(deps_of[d].value.metadata))

\* C22: the container identity carries the image reference with its full
\* registry path: for every tag list with a first tag, the reported image
\* equals that complete first tag, not its last path component.
C22_ImageReferenceKeptInFull ==
    (/\ ucall.fn = "DockerExecutor.get_container_info"
     /\ uret.kind = "value"
     /\ ucall.reload = "ok"
     /\ ucall.tags # <<>>) =>
        uret.value.image = ucall.tags[1]

\* C23: a progress callback handed to resolve_batch is invoked once for each
\* result that is processed, with a completion count that starts at 1 and
\* grows by 1, with total = len(requests) and with the ResolveResult just
\* completed; with fail_fast disabled it is invoked len(requests) times.
C23_ProgressOncePerResult ==
    progress_callback =>
        /\ Len(progress_calls) = completed_count
        /\ \A k \in 1..Len(progress_calls) :
              /\ progress_calls[k].completed = k
              /\ progress_calls[k].total = N
              /\ \E i \in yielded : /\ results[i] = Value(progress_calls[k].result)
                                    /\ progress_calls[k].result.request = requests[i]
        /\ \A k, l \in 1..Len(progress_calls) :
              k # l => progress_calls[k].result.request # progress_calls[l].result.request
        /\ (Terminated /\ ~fail_fast) => Len(progress_calls) = N

\* ------------------------------------------------------------------------
\* resolve_batch_as_dict
\* ------------------------------------------------------------------------
\* resolver.py:178: result.request.environment_identifier or f"request_{i}";
\* a key is the identifier, or the word request_ with the list index
DictKey(res, i) ==
    IF res.request.environment_identifier # NoneStr
    THEN <<res.request.environment_identifier>>
    ELSE <<"request_", i>>

\* resolver.py:180-191: what is stored under the key
DictEntry(res) ==
    IF res.success
    THEN [dependencies |-> res.dependencies]
    ELSE [error |-> res.error,
          request |-> [environment_type |-> res.request.environment_type,
                       environment_identifier |-> res.request.environment_identifier,
                       working_dir |-> res.request.working_dir]]

\* resolver.py:176-193: the loop over enumerate(results), from index i on
RECURSIVE AsDictFrom(_, _, _, _)
AsDictFrom(rs, i, include_errors, output) ==
    IF i >= Len(rs) THEN output
    ELSE AsDictFrom(rs, i + 1, include_errors,
                    IF rs[i + 1].success \/ include_errors
                    THEN DictSet(output, DictKey(rs[i + 1], i), DictEntry(rs[i + 1]))
                    ELSE output)

\* DependencyResolver.resolve_batch_as_dict on the list resolve_batch returned
ResolveBatchAsDict(rs, include_errors) == AsDictFrom(rs, 0, include_errors, EmptyDict)

\* C24: resolve_batch_as_dict with include_errors=True returns one entry per
\* submitted request: as many keys as requests, each request under its
\* environment identifier, or under request_<index> when it has none.
C24_OneEntryPerRequest ==
    (bpc = "returned" /\ ~fail_fast) =>
        LET output == ResolveBatchAsDict(returned, TRUE) IN
        /\ Cardinality(DOMAIN output) = N
        /\ \A i \in Indices :
              LET key == IF requests[i].environment_identifier # NoneStr
                         THEN <<requests[i].environment_identifier>>
                         ELSE <<"request_", i - 1>>
              IN  key \in DOMAIN output

\* ------------------------------------------------------------------------
\* Orchestrator: the per-detector state machine
\* ------------------------------------------------------------------------
\* position of detector d in the registration order
Position(d) == CHOOSE k \in 1..Len(Detectors) : Detectors[k] = d

\* the calls of operation op on detector d so far
CallsOf(d, op) == {k \in DetectorCalls : calls[k] = <<d, op>>}

EndsUnusable(d) == usable_of[d] = Value(FALSE)
EndsSkipped(d) ==
    /\ usable_of[d] = Value(TRUE)
    /\ skip_system_scope
    /\ scope_of[d] = Value(TRUE)
    /\ deps_of[d] = Unasked
EndsExtracted(d) ==
    /\ usable_of[d] = Value(TRUE)
    /\ deps_of[d].kind = "value"
    /\ d # "docker-info" => scope_of[d].kind = "value"

\* the run is over: it returned or it raised after the working-directory check
RunOver == opc = "returned" \/ (opc = "raised" /\ oraised # WorkingDirError)

C26_SearchOncePerInstance ==
    ucall.fn = "_find_venv_path" =>
        \A k \in 1..Len(exec_runs) :
            /\ exec_runs[k].cmds = {}
            /\ exec_runs[k].out = uret

\* the first call, without working directory, found nothing; a later call
\* for /proj, where a venv exists, still answers None without any command
C26_Witness ==
    /\ ucall.fn = "_find_venv_path"
    /\ ucall.wd = NoneStr
    /\ uret = Value(NoPath)
    /\ <<"/proj", "venv">> \in ucall.env.markers
    /\ Len(exec_runs) = MaxLaterCalls
    /\ exec_runs[1].wd = "/proj"
    /\ exec_runs[1].out = Value(NoPath)

\* C27: on a HostExecutor venv discovery neither reads $VIRTUAL_ENV nor runs
\* the filesystem-wide search for pyvenv.cfg; both happen only on other
\* executors, and the filesystem-wide search only after every prioritized
\* candidate failed validation.
C27_HostNeverHintNorFallback ==
    (ucall.fn = "_find_venv_path" /\ uret # NotRun) =>
        /\ ucall.ex = "HostExecutor" =>
              pip_cmds \cap {"echo $VIRTUAL_ENV", "find system-wide"} = {}
        /\ "find system-wide" \in pip_cmds =>
              /\ ucall.ex # "HostExecutor"
              /\ \A k \in 1..Len(ClaimedCandidates(ucall)) :
                    ClaimedCandidates(ucall)[k] \notin ucall.env.markers

\* in a container with a hint but no pyvenv.cfg at any candidate, the
\* filesystem-wide search ran and found the venv under /opt
C27_Witness ==
    /\ ucall.fn = "_find_venv_path"
    /\ ucall.ex = "DockerExecutor"
    /\ ucall.explicit = NoPath
    /\ ucall.env.virtual_env = <<"/hint">>
    /\ ucall.env.markers = {<<"/opt", "app">>}
    /\ {"echo $VIRTUAL_ENV", "find system-wide"} \subseteq pip_cmds
    /\ uret = Value(<<"/opt", "app">>)

\* C28: PipDetector.has_system_scope returns True whenever venv discovery
\* found no virtual environment, and False only when the pip in use is the
\* bin/pip of a discovered virtual environment.
C28_NoVenvMeansSystemScope ==
    (scope_of["pip"].kind = "value" /\ pip_cache.searched) =>
        /\ pip_cache.path = NoPath => scope_of["pip"].value
        /\ ~scope_of["pip"].value => (pip_cache.path # NoPath /\ pip_env.venv_pip)

\* C29: the compose-stack executor answers every path check with False, so
\* resolve_dependencies on it with a working directory always raises the
\* "Working directory does not exist" ValueError and runs no detector; only
\* working_dir = None produces a result for a compose stack.
C29_ComposeRejectsEveryWorkingDir ==
    (executor_type = "DockerComposeExecutor" /\ opc # "validate") =>
        /\ working_dir # NoneStr =>
              /\ opc = "raised"
              /\ oraised = WorkingDirError
              /\ DetectorCalls = {}
        /\ opc = "returned" => working_dir = NoneStr

\* a compose stack asked about the directory /proj, which exists on the
\* other targets: the run raised after the path check alone
C29_Witness ==
    /\ executor_type = "DockerComposeExecutor"
    /\ working_dir = "/proj"
    /\ opc = "raised"
    /\ oraised = WorkingDirError
    /\ calls = << <<"executor", "path_exists">> >>

\* C30: with fail_fast=True, a request still executing when the first failed
\* result is processed runs to completion before resolve_batch returns (no
\* worker runs at the return), its ResolveResult is not in the returned list
\* and the progress callback is not invoked for it; the returned list holds
\* the results processed up to and including the first failure, in
\* submission order.
C30_FailFastDropsLateResults ==
    (bpc = "returned" /\ fail_fast /\ \E k \in 1..Len(returned) : ~returned[k].success) =>
        /\ \A i \in Indices : fstate[i] \in {"finished", "cancelled"}
        /\ Cardinality({k \in 1..Len(returned) : ~returned[k].success}) = 1
        /\ Len(returned) = Cardinality(yielded)
        /\ \A i \in Indices \ yielded :
              /\ \A k \in 1..Len(returned) : returned[k].request # requests[i]
              /\ \A k \in 1..Len(progress_calls) :
                    progress_calls[k].result.request # requests[i]
        /\ \A i \in yielded :
              \E k \in 1..Len(returned) : returned[k] = foutcome[i].value
        /\ \A k, l \in 1..Len(returned) :
              k < l => returned[k].request.metadata < returned[l].request.metadata
        /\ progress_callback => ~progress_calls[Len(progress_calls)].result.success

\* two workers: the first request failed and was processed while the second
\* was not yet done; at the return the second has run to its end, and
\* neither the list nor the callback has seen it
C30_Witness ==
    /\ bpc = "returned"
    /\ fail_fast
    /\ progress_callback
    /\ max_workers = 2
    /\ N = 2
    /\ yielded = {1}
    /\ fstate = <<"finished", "finished">>
    /\ foutcome[2].kind = "value"
    /\ Len(returned) = 1
    /\ ~returned[1].success
    /\ Len(progress_calls) = 1

====
